---------------------------- MODULE Spec2Model ----------------------------
(***************************************************************************)
(* A model of ipa-replica-manage (ipaserver/commands/ipa_replica_manage.py)*)
(* : the administrative layer that manages replication agreements, DNA     *)
(* identifier ranges and replica update vectors (RUVs) of a multi-master   *)
(* directory cluster.  Every command of the tool is one action: the tool   *)
(* is single-threaded and synchronous, so a command runs from its first    *)
(* line to its exit without interleaving.                                  *)
(***************************************************************************)
EXTENDS Integers, Sequences, FiniteSets, TLC

(***************************************************************************)
(* Bounds of the model.                                                    *)
(***************************************************************************)
\* replica ids are 1..MaxRid; 0 stands for "no cn=replica entry" (NotFound)
MaxRid == 3
\* at most MaxRuv {replica ...} values in the RUV of one suffix
MaxRuv == 2
\* identifiers are 1..MaxId; a range is a pair <<start, max>> of them
MaxId == 5

None == "none"
\* (None, None): what get_DNA_range gives when no range is set
NoRange == <<>>
\* no replica id: get_rid_by_host found none
NoRid == 0

\* Hosts.  Masters come back from the directory in this order.
Nodes == {"A", "B", "C", "D"}
NodeOrder == <<"A", "B", "C", "D">>
\* W is a Windows domain controller, the remote end of a winsync agreement
Hosts == Nodes \cup {"W"}
Types == {"IPA", "WINSYNC"}

\* the two replicated suffixes: the domain suffix and o=ipaca
Suffixes == {"domain", "ca"}

Rids == 1..MaxRid
LdapPort == 389

VARIABLES
    masters,     \* cn=masters,cn=ipa,cn=etc: the registered masters
    services,    \* services[m]: the service entries below a master entry
    online,      \* online[m]: a directory session to m can be opened
    replicaId,   \* replicaId[m][s]: nsDS5ReplicaID of m's cn=replica, 0 if none
    ruvSet,      \* ruvSet[s]: the (netloc, rid) pairs of the suffix's RUV tombstone
    ruvState,    \* ruvState[m][s]: what get_ruv meets on m for suffix s
    info,        \* clean_dangling_ruvs: the info dictionary of the last run
    tasks,       \* CLEANALLRUV task entries created so far
    last,        \* the last command: its name, exit code, messages, effects
    agr,         \* replication agreements: <<node, remote host, type>>
    referrals,   \* referral entries: <<node, remote host>>
    cur,         \* cur[m]: the DNA range of m (dnaNextValue, dnaMaxValue) or None
    nxt,         \* nxt[m]: the on-deck range of m (dnaNextRange) or None
    readonly,    \* readonly[m]: m's directory is in read-only mode
    renewal,     \* the CA renewal master
    dnssecMaster,\* the DNSSEC key master
    dnsRecords,  \* the masters that have DNS records
    idranges,    \* cn=ranges: the ipaDomainIDRange entries <<base, size>>
    trustranges, \* cn=ranges: the ipatrustedaddomainrange entries <<base, size>>
    sharedInfo,  \* the entries under cn=replicas,cn=ipa,cn=etc, each as the
                 \* path of names from the host entry down to it
    managed,     \* has_managed_topology(api)
    dnaAccess    \* dnaAccess[m]: the caller may read and write m's DNA configuration

clusterVars == <<masters, services, online>>
topoVars == <<agr, referrals, cur, nxt, readonly, renewal, dnssecMaster,
              dnsRecords, idranges, trustranges, sharedInfo, managed,
              dnaAccess>>
vars == <<masters, services, online, replicaId, ruvSet, ruvState, info,
          tasks, last, agr, referrals, cur, nxt, readonly, renewal,
          dnssecMaster, dnsRecords, idranges, trustranges, sharedInfo,
          managed, dnaAccess>>

(***************************************************************************)
(* Helpers.                                                                *)
(***************************************************************************)
\* the subsequence of NodeOrder whose members are in S
RECURSIVE OrderOf(_, _)
OrderOf(seq, S) ==
    IF seq = <<>> THEN <<>>
    ELSE IF Head(seq) \in S THEN <<Head(seq)>> \o OrderOf(Tail(seq), S)
         ELSE OrderOf(Tail(seq), S)

\* conn.get_entries(masters_dn, SCOPE_ONELEVEL): the masters, in directory order
MasterList == OrderOf(NodeOrder, masters)

\* a set of rids or of (host, rid) pairs as a list, in a fixed iteration order
RECURSIVE SetToSeq(_)
SetToSeq(S) ==
    IF S = {} THEN <<>>
    ELSE LET x == CHOOSE y \in S : TRUE IN <<x>> \o SetToSeq(S \ {x})

(***************************************************************************)
(* RUV Collector: get_ruv and get_ruv_both_suffixes.                       *)
(***************************************************************************)
\* get_ruv(realm, host, ..., ca): the (netloc, rid) pairs of one suffix, or
\* RuntimeError (no connection) or NoRUVsFound (no tombstone entry).
get_ruv(host, tree) ==
    IF ~online[host] \/ ruvState[host][tree] = "RuntimeError"
    THEN [status |-> "RuntimeError", servers |-> {}]
    ELSE IF ruvState[host][tree] = "NoRUVsFound"
    THEN [status |-> "NoRUVsFound", servers |-> {}]
    ELSE [status |-> "ok", servers |-> ruvSet[tree]]

\* get_ruv_both_suffixes: the CA suffix first, then the domain suffix.  A
\* RuntimeError of the domain lookup is raised only if the CA lookup had
\* ended with a RuntimeError too; with no half at all, NoRUVsFound.
get_ruv_both_suffixes(host) ==
    LET ca == get_ruv(host, "ca")
        dom == get_ruv(host, "domain")
        fail_gracefully == ca.status # "RuntimeError"
        keys == {t \in Suffixes :
                    (IF t = "ca" THEN ca.status ELSE dom.status) = "ok"}
    IN  IF dom.status = "RuntimeError" /\ ~fail_gracefully
        THEN [status |-> "RuntimeError", keys |-> {},
              ca |-> {}, domain |-> {}]
        ELSE IF keys = {}
        THEN [status |-> "NoRUVsFound", keys |-> {},
              ca |-> {}, domain |-> {}]
        ELSE [status |-> "ok", keys |-> keys,
              ca |-> IF "ca" \in keys THEN ca.servers ELSE {},
              domain |-> IF "domain" \in keys THEN dom.servers ELSE {}]

\* re.sub(':\d+', '', x): a netloc host:port without its port
StripPort(netloc) == netloc[1]

(***************************************************************************)
(* Dangling-RUV Detector: clean_dangling_ruvs and clean_ruv.               *)
(***************************************************************************)
\* info[master] as first filled in: nothing known but the CA service entry
InfoInit(m) ==
    [online |-> FALSE, ca |-> "CA" \in services[m],
     ruvs |-> {}, csruvs |-> {}, clean_ruv |-> {}, clean_csruv |-> {}]

\* the masters no session could be opened to
offlines == {m \in masters : ~online[m]}

\* the self-reported (master_cn, nsDS5ReplicaID) pairs of the domain suffix
ruvs ==
    {<<m, replicaId[m]["domain"]>> :
        m \in {n \in masters : online[n] /\ replicaId[n]["domain"] # 0}}

\* the self-reported pairs of o=ipaca, asked only of masters with a CA entry
csruvs ==
    {<<m, replicaId[m]["ca"]>> :
        m \in {n \in masters : online[n] /\ InfoInit(n).ca
                                 /\ replicaId[n]["ca"] # 0}}

\* the observed RUVs of one master, ports stripped
Collected(m) ==
    IF ~online[m] THEN InfoInit(m)
    ELSE LET ruv_dict == get_ruv_both_suffixes(m)
         IN  [InfoInit(m) EXCEPT
                !.online = TRUE,
                !.ruvs = IF ruv_dict.status = "ok"
                         THEN {<<StripPort(x[1]), x[2]>> : x \in ruv_dict.domain}
                         ELSE {},
                !.csruvs = IF ruv_dict.status = "ok"
                           THEN {<<StripPort(x[1]), x[2]>> : x \in ruv_dict.ca}
                           ELSE {}]

\* IsDangling without the test of the offline masters
IsDangling_IgnoringOfflines(ruv, selfReported, off) ==
    ruv \notin selfReported

\* IsDangling comparing the hostname alone, not the (hostname, rid) pair
IsDangling_ByHostname(ruv, selfReported, off) ==
    ruv[1] \notin {x[1] : x \in selfReported} /\ ruv[1] \notin off

\* (ruv not in ruvs) and (ruv[0] not in offlines)
IsDangling(ruv, selfReported, off) ==
    ruv \notin selfReported /\ ruv[1] \notin off

\* info[master] after the "get the dangling RUVs" loop
Classified(m) ==
    LET c == Collected(m)
    IN  IF c.online
        THEN [c EXCEPT
                !.clean_ruv = {r \in c.ruvs : IsDangling(r, ruvs, offlines)},
                !.clean_csruv =
                    {r \in c.csruvs : IsDangling(r, csruvs, offlines)}]
        ELSE c

\* dangles set although nothing was added to a clean set
dangles_AlwaysSet == TRUE

dangles ==
    \E m \in masters :
        Classified(m).clean_ruv # {} \/ Classified(m).clean_csruv # {}

\* clean_ruv(realm, ruv, options): the tree searched first is 'ca', the key
\* get_ruv_both_suffixes inserts first.  returned = FALSE stands for sys.exit.
clean_ruv(host, rid, force, answer) ==
    LET servers == get_ruv_both_suffixes(host)
        tree_found ==
            IF \E e \in servers.ca : e[2] = rid THEN "ca"
            ELSE IF \E e \in servers.domain : e[2] = rid THEN "domain"
            ELSE None
    IN  IF servers.status # "ok"
        THEN [returned |-> FALSE,
              exit |-> IF servers.status = "NoRUVsFound" THEN 0 ELSE 1,
              msg |-> servers.status, asked |-> FALSE, task |-> <<>>]
        ELSE IF tree_found = None
        THEN [returned |-> FALSE, exit |-> 1, msg |-> "Replica ID not found",
              asked |-> FALSE, task |-> <<>>]
        ELSE IF ~force /\ ~answer
        THEN [returned |-> FALSE, exit |-> 1, msg |-> "Aborted",
              asked |-> TRUE, task |-> <<>>]
        ELSE [returned |-> TRUE, exit |-> 0, msg |-> "Cleanup task created",
              asked |-> ~force,
              task |-> <<[host |-> host, tree |-> tree_found, rid |-> rid]>>]

\* the (master, rid) pairs the cleaning loop walks through, in its order
RECURSIVE CleanWork(_, _)
CleanWork(ms, inf) ==
    IF ms = <<>> THEN <<>>
    ELSE LET m == Head(ms)
             mine == SetToSeq(inf[m].clean_ruv) \o SetToSeq(inf[m].clean_csruv)
         IN  [i \in 1..Len(mine) |-> <<m, mine[i][2]>>]
             \o CleanWork(Tail(ms), inf)

\* NotYetCleaned with the set of cleaned replica ids never consulted
NotYetCleaned_Always(rid, cleaned) == TRUE

\* ruv[1] not in cleaned
NotYetCleaned(rid, cleaned) == rid \notin cleaned

\* the cleaning loop: one clean_ruv per replica id not yet in cleaned
RECURSIVE CleanLoop(_, _, _)
CleanLoop(work, cleaned, issued) ==
    IF work = <<>>
    THEN [exit |-> 0, msg |-> "Cleanup task created", issued |-> issued]
    ELSE LET m == Head(work)[1]
             rid == Head(work)[2]
         IN  IF NotYetCleaned(rid, cleaned)
             THEN LET r == clean_ruv(m, rid, TRUE, FALSE)
                  IN  IF r.returned
                      THEN CleanLoop(Tail(work), cleaned \cup {rid},
                                     issued \o r.task)
                      ELSE [exit |-> r.exit, msg |-> r.msg, issued |-> issued]
             ELSE CleanLoop(Tail(work), cleaned, issued)

\* clean_dangling_ruvs(realm, host, options)
clean_dangling_ruvs(host, force, answer) ==
    LET inf == [m \in masters |-> Classified(m)]
        noinfo == [m \in masters |-> InfoInit(m)]
    IN  IF ~online[host]
        THEN [exit |-> 1, msg |-> "Failed to get data", asked |-> FALSE,
              info |-> noinfo, issued |-> <<>>]
        ELSE IF ~dangles
        THEN [exit |-> 0, msg |-> "No dangling RUVs found", asked |-> FALSE,
              info |-> inf, issued |-> <<>>]
        ELSE IF ~force /\ ~answer
        THEN [exit |-> 1, msg |-> "Aborted", asked |-> TRUE,
              info |-> inf, issued |-> <<>>]
        ELSE LET r == CleanLoop(CleanWork(MasterList, inf), {}, <<>>)
             IN  [exit |-> r.exit, msg |-> r.msg, asked |-> ~force,
                  info |-> inf, issued |-> r.issued]

\* the directory sessions of get_ruv_both_suffixes(host): the
\* ReplicationManager of each suffix that could be connected to; get_ruv
\* returns or raises NoRUVsFound without an unbind
LookupSessions(host) ==
    (IF get_ruv(host, "ca").status # "RuntimeError"
     THEN <<<<"open", host, "ca">>>> ELSE <<>>)
    \o (IF get_ruv(host, "domain").status # "RuntimeError"
        THEN <<<<"open", host, "domain">>>> ELSE <<>>)

\* the sessions of the loop over info.items(): conn is opened for every
\* master that is online and unbound in the finally clause
RECURSIVE CollectSessions(_)
CollectSessions(ms) ==
    IF ms = <<>> THEN <<>>
    ELSE (IF online[Head(ms)]
          THEN <<<<"open", Head(ms), "conn">>>> \o LookupSessions(Head(ms))
               \o <<<<"unbind", Head(ms), "conn">>>>
          ELSE <<>>)
         \o CollectSessions(Tail(ms))

\* the sessions of the cleaning loop: those of the lookup of each clean_ruv
\* and the ReplicationManager that creates the task
RECURSIVE CleanSessions(_, _)
CleanSessions(work, cleaned) ==
    IF work = <<>> THEN <<>>
    ELSE IF ~NotYetCleaned(Head(work)[2], cleaned)
    THEN CleanSessions(Tail(work), cleaned)
    ELSE LookupSessions(Head(work)[1])
         \o (IF clean_ruv(Head(work)[1], Head(work)[2], TRUE, FALSE).returned
             THEN <<<<"open", Head(work)[1],
                      clean_ruv(Head(work)[1], Head(work)[2], TRUE,
                                FALSE).task[1].tree>>>>
                  \o CleanSessions(Tail(work), cleaned \cup {Head(work)[2]})
             ELSE <<>>)

\* the sessions clean_dangling_ruvs opens and unbinds, in the order of the
\* run
clean_dangling_sessions(host, force, answer) ==
    IF ~online[host] THEN <<>>
    ELSE <<<<"open", host, "conn">>, <<"unbind", host, "conn">>>>
         \o CollectSessions(MasterList)
         \o (IF dangles /\ (force \/ answer)
             THEN CleanSessions(CleanWork(MasterList,
                                          [m \in masters |-> Classified(m)]),
                                {})
             ELSE <<>>)

\* the task entries after thisrepl.cleanallruv(rid) for each task of a run
TasksAfter(issued) == tasks \cup {issued[i] : i \in 1..Len(issued)}

(***************************************************************************)
(* The commands.                                                           *)
(***************************************************************************)
\* ipa-replica-manage clean-dangling-ruv [-H host] [--force]
CleanDanglingRuv(host, force, answer) ==
    LET r == clean_dangling_ruvs(host, force, answer)
    IN  /\ info' = r.info
        /\ tasks' = TasksAfter(r.issued)
        /\ last' = [op |-> "clean-dangling-ruv", host |-> host,
                    force |-> force, exit |-> r.exit, msg |-> r.msg,
                    asked |-> r.asked, issued |-> r.issued,
                    sessions |-> clean_dangling_sessions(host, force, answer)]
        /\ UNCHANGED <<clusterVars, replicaId, ruvSet, ruvState, topoVars>>

\* ipa-replica-manage clean-ruv <rid> [-H host] [--force]
CleanRuv(host, rid, force, answer) ==
    LET r == clean_ruv(host, rid, force, answer)
    IN  /\ tasks' = TasksAfter(r.task)
        /\ last' = [op |-> "clean-ruv", host |-> host, force |-> force,
                    exit |-> r.exit, msg |-> r.msg, asked |-> r.asked,
                    issued |-> r.task]
        /\ UNCHANGED <<clusterVars, replicaId, ruvSet, ruvState, info, topoVars>>

(***************************************************************************)
(* The RUV specification: a cluster of two masters A and B, with C a       *)
(* master that was removed, and every RUV content within the bounds.       *)
(***************************************************************************)
RuvMasters == {"A", "B"}
RuvOrigins == {"A", "B", "C"}

\* the replica ids the two masters were given at installation, per suffix
InstalledRid ==
    [domain |-> [A |-> 1, B |-> 2, C |-> 0, D |-> 0],
     ca |-> [A |-> 2, B |-> 3, C |-> 0, D |-> 0]]

\* replica ids are unique per suffix: no two origins share one
RidsUnique(S) == \A e1, e2 \in S : e1[2] = e2[2] => e1 = e2

\* the RUVs a suffix can hold: at most n values, no replica id twice, and
\* the replica id of a master names that master
RuvSets(s, n) ==
    {S \in SUBSET {<<<<h, LdapPort>>, r>> : h \in RuvOrigins, r \in Rids} :
        /\ Cardinality(S) <= n
        /\ RidsUnique(S)
        /\ \A e \in S : \A m \in RuvMasters :
              e[2] = InstalledRid[s][m] => e[1][1] = m}

NoLast == [op |-> None, host |-> None, force |-> FALSE, exit |-> 0,
           msg |-> None, asked |-> FALSE, issued |-> <<>>]

\* A is the healthy master the tool is usually run on; B is met in every
\* condition: offline, without cn=replica entry for o=ipaca, with failing
\* RUV lookups.
InitRuv ==
    /\ masters = RuvMasters
    /\ online \in {[n \in Nodes |-> n \in up] : up \in {{"A", "B"}, {"A"}, {"B"}}}
    /\ services \in {[n \in Nodes |-> IF n \in withCa THEN {"CA"} ELSE {}] :
                        withCa \in SUBSET RuvMasters}
    /\ ruvSet \in [Suffixes -> RuvSets("domain", MaxRuv) \cup RuvSets("ca", MaxRuv)]
    /\ ruvSet["domain"] \in RuvSets("domain", MaxRuv)
    /\ ruvSet["ca"] \in RuvSets("ca", MaxRuv - 1)
    /\ (\A m \in RuvMasters : services[m] = {}) => ruvSet["ca"] = {}
    /\ \E bCa \in {0, InstalledRid["ca"]["B"]} :
          /\ "CA" \notin services["B"] => bCa = 0
          /\ replicaId =
                [n \in Nodes |->
                    [s \in Suffixes |->
                        IF n = "B" /\ s = "ca" THEN bCa
                        ELSE IF s = "ca" /\ "CA" \notin services[n] THEN 0
                        ELSE InstalledRid[s][n]]]
    /\ \E bDomState \in {"ok", "NoRUVsFound", "RuntimeError"},
          bCaState \in {"ok", "RuntimeError"} :
          /\ ~online["B"] => bDomState = "RuntimeError" /\ bCaState = "RuntimeError"
          /\ "CA" \notin services["B"] => bCaState = "RuntimeError"
          /\ ruvState =
                [n \in Nodes |->
                    [s \in Suffixes |->
                        IF n = "B" THEN (IF s = "domain" THEN bDomState ELSE bCaState)
                        ELSE IF ~online[n] THEN "RuntimeError"
                        ELSE IF s = "ca" /\ "CA" \notin services[n]
                        THEN "RuntimeError"
                        ELSE "ok"]]
    /\ info = [m \in masters |-> InfoInit(m)]
    /\ tasks = {}
    /\ last = NoLast
    /\ agr = {}
    /\ referrals = {}
    /\ cur = [n \in Nodes |-> NoRange]
    /\ nxt = [n \in Nodes |-> NoRange]
    /\ readonly = [n \in Nodes |-> FALSE]
    /\ renewal = None
    /\ dnssecMaster = None
    /\ dnsRecords = {}
    /\ idranges = {}
    /\ trustranges = {}
    /\ sharedInfo = {}
    /\ managed = FALSE
    /\ dnaAccess = [n \in Nodes |-> TRUE]

\* One run of the tool per behaviour: the cluster does not change under
\* these commands, so a second run repeats the first.
NextRuv ==
    /\ last.op = None
    /\ \E host \in RuvMasters, force \in BOOLEAN, answer \in BOOLEAN :
          CleanDanglingRuv(host, force, answer)

SpecRuv == InitRuv /\ [][NextRuv]_vars

(***************************************************************************)
(* The cluster as the steps of one command see and change it.  online,     *)
(* the RUVs and the configured ranges do not change under a command.       *)
(***************************************************************************)
Cluster ==
    [agr |-> agr, referrals |-> referrals, cur |-> cur, nxt |-> nxt,
     readonly |-> readonly, masters |-> masters, services |-> services,
     renewal |-> renewal, dnsRecords |-> dnsRecords, tasks |-> tasks,
     sharedInfo |-> sharedInfo, log |-> <<>>]

\* one more line in the record of what the command did
Log(st, ev) == [st EXCEPT !.log = Append(@, ev)]

Max(a, b) == IF a >= b THEN a ELSE b
Min(a, b) == IF a <= b THEN a ELSE b

(***************************************************************************)
(* ReplicationManager: the directory operations the tool calls.            *)
(***************************************************************************)
\* replication.ReplicationManager(realm, host, dirman_passwd) connects
CanConnect(host) == host \in Nodes /\ online[host]

\* get_agreement_type: IPA, WINSYNC, or None for errors.NotFound
get_agreement_type(st, node, remote) ==
    IF <<node, remote, "WINSYNC">> \in st.agr THEN "WINSYNC"
    ELSE IF <<node, remote, "IPA">> \in st.agr THEN "IPA"
    ELSE None

\* find_ipa_replication_agreements: nsds5replicahost of node's IPA agreements
find_ipa_replication_agreements(st, node) ==
    OrderOf(NodeOrder, {h \in Nodes : <<node, h, "IPA">> \in st.agr})

\* get_DNA_range, get_DNA_next_range, save_DNA_range and save_DNA_next_range
\* raise errors.NotFound when the caller has no permission on the entry
HasDNAPermission(node) == dnaAccess[node]

\* get_DNA_range / get_DNA_next_range: NoRange when nothing is set
get_DNA_range(st, node) == st.cur[node]
get_DNA_next_range(st, node) == st.nxt[node]

\* save_DNA_next_range: writes the on-deck range
save_DNA_next_range(st, node, range) ==
    Log([st EXCEPT !.nxt[node] = range], <<"save_DNA_next_range", node, range>>)

\* save_DNA_range: writes the current range
save_DNA_range(st, node, range) ==
    Log([st EXCEPT !.cur[node] = range], <<"save_DNA_range", node, range>>)

(***************************************************************************)
(* ID-Range Allocator: set_DNA_range.                                      *)
(***************************************************************************)
\* six.moves.xmlrpc_client.MAXINT
MAXINT == 2147483647

\* validate_range with MAXINT itself taken for a valid endpoint
validate_range_MaxIncluded(dna_next, dna_max, allow_all_zero) ==
    IF dna_next = 0 /\ dna_max = 0 /\ allow_all_zero THEN None
    ELSE IF dna_next <= 0 \/ dna_max <= 0
            \/ dna_next > MAXINT \/ dna_max > MAXINT
    THEN "The range must consist of positive integers between 1 and MAXINT"
    ELSE IF dna_next >= dna_max THEN "Invalid range"
    ELSE None

\* validate_range once the two components are integers: None if ok
validate_range(dna_next, dna_max, allow_all_zero) ==
    IF dna_next = 0 /\ dna_max = 0 /\ allow_all_zero THEN None
    ELSE IF dna_next <= 0 \/ dna_max <= 0
            \/ dna_next >= MAXINT \/ dna_max >= MAXINT
    THEN "The range must consist of positive integers between 1 and MAXINT"
    ELSE IF dna_next >= dna_max THEN "Invalid range"
    ELSE None

\* range_intersection taking a shared endpoint for no intersection
range_intersection_Open(s1, s2, r1, r2) == Max(s1, r1) < Min(s2, r2)

\* range_intersection(s1, s2, r1, r2)
range_intersection(s1, s2, r1, r2) == Max(s1, r1) <= Min(s2, r2)

\* if master == hostname and not next_range: continue
SkipsOwnEntry(master, hostname, next_range) ==
    master = hostname /\ ~next_range

\* the loop over the masters: the first master whose DNA range or DNA next
\* range intersects the new range, master None if there is none.  A master that cannot be
\* connected to is passed over ("Overlap not checked."), and so is one
\* whose DNA configuration may not be read.
RECURSIVE OverlapScan(_, _, _, _, _, _)
OverlapScan(st, ms, hostname, dna_next, dna_max, next_range) ==
    IF ms = <<>> THEN [master |-> None, what |-> None]
    ELSE LET master == Head(ms)
             rest == OverlapScan(st, Tail(ms), hostname, dna_next, dna_max,
                                 next_range)
             entry == get_DNA_range(st, master)
             entry_next == get_DNA_next_range(st, master)
         IN  IF SkipsOwnEntry(master, hostname, next_range) THEN rest
             ELSE IF ~CanConnect(master) THEN rest
             \* "No permission to read DNA configuration": continue
             ELSE IF ~HasDNAPermission(master) THEN rest
             ELSE IF entry # NoRange
                     /\ range_intersection(entry[1], entry[2], dna_next, dna_max)
             THEN [master |-> master, what |-> "DNA range"]
             ELSE IF entry_next # NoRange
                     /\ range_intersection(entry_next[1], entry_next[2],
                                           dna_next, dna_max)
             THEN [master |-> master, what |-> "DNA next range"]
             ELSE rest

\* FitsDomainRange looking at the start of the range alone
FitsDomainRange_StartOnly(dna_next, dna_max) ==
    \E ent \in idranges :
        dna_next >= ent[1] /\ dna_next <= ent[1] + ent[2]

\* dna_next >= entry_start and dna_max <= entry_max for one ipaDomainIDRange
FitsDomainRange(dna_next, dna_max) ==
    \E ent \in idranges :
        dna_next >= ent[1] /\ dna_max <= ent[1] + ent[2]

\* get_entries(dn, SCOPE_BASE, "(objectclass=ipatrustedaddomainrange)") on
\* dn = cn=ranges,cn=etc: a base search looks at the container alone, and
\* the container is no trust range
RangesContainerIsTrustRange == FALSE

TrustRangeEntries ==
    {ent \in trustranges : RangesContainerIsTrustRange}

OverlapsTrustRange(dna_next, dna_max) ==
    \E ent \in TrustRangeEntries :
        range_intersection(dna_next, dna_max, ent[1], ent[1] + ent[2])

\* set_DNA_range(hostname, range, realm, dirman_passwd, next_range)
set_DNA_range(st, hostname, dna_next, dna_max, next_range) ==
    LET err == validate_range(dna_next, dna_max, next_range)
        hit == OverlapScan(st, OrderOf(NodeOrder, st.masters), hostname,
                           dna_next, dna_max, next_range)
        new == IF dna_next = 0 /\ dna_max = 0 THEN NoRange
               ELSE <<dna_next, dna_max>>
        stored == IF next_range THEN get_DNA_next_range(st, hostname)
                  ELSE get_DNA_range(st, hostname)
    IN  IF err # None
        THEN [st |-> st, exit |-> 1, msg |-> err, on |-> None]
        ELSE IF ~CanConnect(hostname)
        THEN [st |-> st, exit |-> 1, msg |-> "Connection failed", on |-> None]
        ELSE IF dna_next > 0 /\ hit.master # None
        THEN [st |-> st, exit |-> 1,
              msg |-> "New range overlaps the " \o hit.what,
              on |-> hit.master]
        ELSE IF dna_next > 0 /\ idranges = {}
        THEN [st |-> st, exit |-> 1, msg |-> "Unable to load IPA ranges",
              on |-> None]
        ELSE IF dna_next > 0 /\ ~FitsDomainRange(dna_next, dna_max)
        THEN [st |-> st, exit |-> 1,
              msg |-> "New range does not fit within existing IPA ranges",
              on |-> None]
        ELSE IF dna_next > 0 /\ OverlapsTrustRange(dna_next, dna_max)
        THEN [st |-> st, exit |-> 1,
              msg |-> "New range overlaps with a Trust range", on |-> None]
        ELSE IF ~HasDNAPermission(hostname)
        THEN [st |-> st, exit |-> 1, msg |-> "No permission to update ranges",
              on |-> None]
        ELSE IF new = stored
        THEN [st |-> st, exit |-> 1, msg |-> "No changes to make", on |-> None]
        ELSE [st |-> IF next_range THEN save_DNA_next_range(st, hostname, new)
                     ELSE save_DNA_range(st, hostname, new),
              exit |-> 0, msg |-> "saved", on |-> None]

(***************************************************************************)
(* ReplicationManager: the writes del_link makes.                          *)
(***************************************************************************)
\* set_readonly(readonly): nsslapd-readonly of the userRoot backend
set_readonly(st, node, flag) ==
    Log([st EXCEPT !.readonly[node] = flag], <<"set_readonly", node, flag>>)

\* force_sync(conn, hostname) raises when node has no agreement for hostname
CanForceSync(st, node, hostname) ==
    get_agreement_type(st, node, hostname) # None

\* delete_agreement(hostname): removes node's agreement entry for hostname
delete_agreement(st, node, hostname) ==
    Log([st EXCEPT !.agr = @ \ {<<node, hostname, t>> : t \in Types}],
        <<"delete_agreement", node, hostname>>)

\* delete_referral(hostname): removes node's referral to hostname
delete_referral(st, node, hostname) ==
    Log([st EXCEPT !.referrals = @ \ {<<node, hostname>>}],
        <<"delete_referral", node, hostname>>)

(***************************************************************************)
(* ID-Range Allocator: store_DNA_range.                                    *)
(***************************************************************************)
\* a master the loop does not pass over: not the deleted master, reachable
IsCandidate(candidate, deleted_master) ==
    candidate # deleted_master /\ CanConnect(candidate)

\* store_DNA_range saving on the first candidate, whether or not it has an
\* on-deck range
RECURSIVE store_DNA_range_Overwrite(_, _, _, _)
store_DNA_range_Overwrite(st, ms, range, deleted_master) ==
    IF ms = <<>> THEN [st |-> st, saved |-> FALSE, raised |-> FALSE]
    ELSE IF ~IsCandidate(Head(ms), deleted_master)
    THEN store_DNA_range_Overwrite(st, Tail(ms), range, deleted_master)
    ELSE IF ~HasDNAPermission(Head(ms))
    THEN [st |-> st, saved |-> FALSE, raised |-> TRUE]
    ELSE [st |-> save_DNA_next_range(st, Head(ms), range), saved |-> TRUE,
          raised |-> FALSE]

\* store_DNA_range(repl, range_start, range_max, deleted_master, ...): the
\* loop over the masters from ms on.  get_DNA_next_range is called outside
\* the try: its errors.NotFound leaves the function (raised).
RECURSIVE store_DNA_range(_, _, _, _)
store_DNA_range(st, ms, range, deleted_master) ==
    IF ms = <<>> THEN [st |-> st, saved |-> FALSE, raised |-> FALSE]
    ELSE IF ~IsCandidate(Head(ms), deleted_master)
    THEN store_DNA_range(st, Tail(ms), range, deleted_master)
    ELSE IF ~HasDNAPermission(Head(ms))
    THEN [st |-> st, saved |-> FALSE, raised |-> TRUE]
    ELSE IF get_DNA_next_range(st, Head(ms)) = NoRange
    THEN [st |-> save_DNA_next_range(st, Head(ms), range), saved |-> TRUE,
          raised |-> FALSE]
    ELSE store_DNA_range(st, Tail(ms), range, deleted_master)

\* if not store_DNA_range(...): print("Unable to save DNA range ...")
StoreOutcome(r, range) ==
    IF r.raised \/ r.saved THEN [st |-> r.st, raised |-> r.raised]
    ELSE [st |-> Log(r.st, <<"Unable to save DNA range", range>>),
          raised |-> FALSE]

\* if range_start is not None: store_DNA_range(...)
StoreIfSet(st, range, deleted_master) ==
    IF range = NoRange THEN [st |-> st, raised |-> FALSE]
    ELSE StoreOutcome(store_DNA_range(st, OrderOf(NodeOrder, st.masters),
                                      range, deleted_master), range)

(***************************************************************************)
(* Topology Editor: del_link.                                              *)
(***************************************************************************)
\* IsLastLink with the list compared with 0 instead of 1
IsLastLink_Zero(st, node, force) ==
    ~force /\ Len(find_ipa_replication_agreements(st, node)) <= 0

\* not force and len(repl_list) <= 1
IsLastLink(st, node, force) ==
    ~force /\ Len(find_ipa_replication_agreements(st, node)) <= 1

\* the except clause leaving failed as it was
FailedOn_NotFlagged(st, replica2) ==
    [st |-> Log(st, <<"Unable to remove agreement on", replica2>>),
     failed |-> FALSE]

\* except Exception: "Unable to remove agreement on ...", failed = True
FailedOn(st, replica2) ==
    [st |-> Log(st, <<"Unable to remove agreement on", replica2>>),
     failed |-> TRUE]

\* the on-deck range is stored after the current range, unless that raised
StoreNext(r, next, replica2) ==
    IF r.raised THEN r ELSE StoreIfSet(r.st, next, replica2)

\* the ranges of replica2 are read and handed on
HandOnRanges(st, replica2) ==
    IF ~HasDNAPermission(replica2) THEN [st |-> st, raised |-> TRUE]
    ELSE StoreNext(StoreIfSet(Log(Log(st, <<"get_DNA_range", replica2>>),
                                  <<"get_DNA_next_range", replica2>>),
                              get_DNA_range(st, replica2), replica2),
                   get_DNA_next_range(st, replica2), replica2)

\* set_readonly(False), delete_agreement, delete_referral, set_readonly(False)
RemoteDelete(st, replica1, replica2) ==
    LET s5 == set_readonly(st, replica2, FALSE)
        s6 == delete_agreement(s5, replica2, replica1)
        s7 == delete_referral(s6, replica2, replica1)
    IN  [st |-> set_readonly(s7, replica2, FALSE), failed |-> FALSE]

\* what follows the handing on of the ranges
RemoteEnd(r, replica1, replica2) ==
    IF r.raised THEN FailedOn(r.st, replica2)
    ELSE RemoteDelete(r.st, replica1, replica2)

\* RemoteSide without the switch to read-only mode
RemoteSide_NoReadOnly(st, replica1, replica2) ==
    IF ~CanForceSync(st, replica2, replica1)
    THEN FailedOn(st, replica2)
    ELSE RemoteEnd(HandOnRanges(Log(st, <<"force_sync", replica2, replica1>>),
                                replica2),
                   replica1, replica2)

\* the try block on the remote side (repl2): read-only, sync, hand the
\* ranges on, delete the agreement and the referral
RemoteSide(st, replica1, replica2) ==
    IF ~CanForceSync(st, replica2, replica1)
    THEN FailedOn(set_readonly(st, replica2, TRUE), replica2)
    ELSE RemoteEnd(HandOnRanges(Log(set_readonly(st, replica2, TRUE),
                                    <<"force_sync", replica2, replica1>>),
                                replica2),
                   replica1, replica2)

\* entry lies below parent in the tree of shared info
IsBelow(entry, parent) ==
    /\ Len(entry) > Len(parent)
    /\ SubSeq(entry, 1, Len(parent)) = parent

\* conn.get_entries(dn, SCOPE_SUBTREE): the entry of replica2 under
\* cn=replicas and everything below it
SharedInfoOf(st, replica2) == {e \in st.sharedInfo : e[1] = replica2}

\* the entries sorted with the shortest DN first
RECURSIVE SortedByDepth_ParentsFirst(_)
SortedByDepth_ParentsFirst(entries) ==
    IF entries = {} THEN <<>>
    ELSE LET x == CHOOSE y \in entries : \A z \in entries : Len(y) <= Len(z)
         IN  <<x>> \o SortedByDepth_ParentsFirst(entries \ {x})

\* entries.sort(key=lambda x: len(x.dn), reverse=True)
RECURSIVE SortedByDepth(_)
SortedByDepth(entries) ==
    IF entries = {} THEN <<>>
    ELSE LET x == CHOOSE y \in entries : \A z \in entries : Len(z) <= Len(y)
         IN  <<x>> \o SortedByDepth(entries \ {x})

\* for entry in entries: repl1.conn.delete_entry(entry); the directory
\* refuses to delete an entry that has children, and the exception ends the
\* loop with "Error deleting winsync replica shared info"
RECURSIVE DeleteSharedInfo(_, _)
DeleteSharedInfo(st, entries) ==
    IF entries = <<>> THEN st
    ELSE IF \E e \in st.sharedInfo : IsBelow(e, Head(entries))
    THEN Log(st, <<"Error deleting winsync replica shared info",
                   Head(entries)>>)
    ELSE DeleteSharedInfo(Log([st EXCEPT !.sharedInfo = @ \ {Head(entries)}],
                              <<"delete_entry", Head(entries)>>),
                          Tail(entries))

\* the end of del_link: the local side (repl1), and the shared info of a
\* winsync peer
LocalSide(st, replica1, replica2, type1) ==
    LET s1 == delete_agreement(st, replica1, replica2)
        s2 == delete_referral(s1, replica1, replica2)
    IN  IF type1 = "WINSYNC"
        THEN DeleteSharedInfo(s2, SortedByDepth(SharedInfoOf(s2, replica2)))
        ELSE s2

\* has_managed_topology answering no whatever the domain level
has_managed_topology_Never == FALSE

\* has_managed_topology(api)
has_managed_topology == managed

Returned(st, value, msg, on) ==
    [st |-> st, returned |-> value, msg |-> msg, on |-> on]

\* del_link(realm, replica1, replica2, dirman_passwd, force)
del_link(st, replica1, replica2, force) ==
    LET type1 == get_agreement_type(st, replica1, replica2)
        what == "Removal of IPA replication agreement is deprecated"
    IN  IF ~CanConnect(replica1)
        \* "Failed to determine agreement type", then type1 is read unbound
        THEN Returned(st, "UnboundLocalError", "type1", replica1)
        ELSE IF type1 = None
        THEN IF has_managed_topology THEN Returned(st, "exit", what, None)
             ELSE Returned(st, "False", "has no replication agreement", replica1)
        ELSE IF type1 = "IPA" /\ has_managed_topology
        THEN Returned(st, "exit", what, None)
        ELSE IF type1 = "IPA" /\ IsLastLink(st, replica1, force)
        THEN Returned(st, "False", "Cannot remove the last replication link",
                      replica1)
        ELSE IF type1 = "IPA" /\ ~CanConnect(replica2) /\ ~force
        THEN Returned(st, "False", "Failed to get list of agreements", replica2)
        ELSE IF type1 = "IPA" /\ CanConnect(replica2)
                /\ IsLastLink(st, replica2, force)
        THEN Returned(st, "False", "Cannot remove the last replication link",
                      replica2)
        ELSE LET remote == IF type1 = "IPA" /\ CanConnect(replica2)
                           THEN RemoteSide(st, replica1, replica2)
                           ELSE [st |-> st, failed |-> FALSE]
             IN  IF remote.failed /\ ~force
                 THEN Returned(remote.st, "False",
                               "Unable to remove agreement", replica2)
                 ELSE Returned(LocalSide(remote.st, replica1, replica2, type1),
                               "True", "Deleted replication agreement",
                               replica1)

(***************************************************************************)
(* Orphan Guard: check_last_link.                                          *)
(***************************************************************************)
\* IsOrphanedBy looking for a neighbour that has no agreement at all
IsOrphanedBy_NoAgreement(names, hostname) == Len(names) = 0

\* len(names) == 1 and names[0] == delrepl.hostname
IsOrphanedBy(names, hostname) ==
    Len(names) = 1 /\ names[1] = hostname

\* check_last_link leaving the loop after a neighbour it could not connect to
RECURSIVE check_last_link_StopAtSkipped(_, _, _, _, _)
check_last_link_StopAtSkipped(st, replica_names, hostname, force, answer) ==
    IF replica_names = <<>>
    THEN [aborted |-> FALSE, orphaned |-> <<>>, unvalidated |-> <<>>]
    ELSE LET replica == Head(replica_names)
             rest == check_last_link_StopAtSkipped(st, Tail(replica_names),
                                                   hostname, force, answer)
             names == find_ipa_replication_agreements(st, replica)
         IN  IF ~CanConnect(replica)
             THEN [aborted |-> ~force /\ ~answer, orphaned |-> <<>>,
                   unvalidated |-> <<replica>>]
             ELSE IF IsOrphanedBy(names, hostname)
             THEN [rest EXCEPT !.orphaned = <<replica>> \o @]
             ELSE rest

\* the loop of check_last_link over replica_names: the neighbours that would
\* be orphaned, those that could not be validated, and whether the operator
\* declined to continue at one of the latter
RECURSIVE check_last_link(_, _, _, _, _)
check_last_link(st, replica_names, hostname, force, answer) ==
    IF replica_names = <<>>
    THEN [aborted |-> FALSE, orphaned |-> <<>>, unvalidated |-> <<>>]
    ELSE LET replica == Head(replica_names)
             rest == check_last_link(st, Tail(replica_names), hostname, force,
                                     answer)
             names == find_ipa_replication_agreements(st, replica)
         IN  IF ~CanConnect(replica)
             THEN IF ~force /\ ~answer
                  THEN [aborted |-> TRUE, orphaned |-> <<>>,
                        unvalidated |-> <<replica>>]
                  ELSE [rest EXCEPT !.unvalidated = <<replica>> \o @]
             ELSE IF IsOrphanedBy(names, hostname)
             THEN [rest EXCEPT !.orphaned = <<replica>> \o @]
             ELSE rest

(***************************************************************************)
(* Service continuity: ensure_last_services.                               *)
(***************************************************************************)
\* set_renewal_master giving the role to options.host whatever it provides
set_renewal_master_AnyHost(st, host, ca_hostname) ==
    Log([st EXCEPT !.renewal = host], <<"set_renewal_master", host>>)

\* ca.set_renewal_master(options.host), and on errors.NotFound (options.host
\* has no CA service entry) ca.set_renewal_master(ca_hostname)
set_renewal_master(st, host, ca_hostname) ==
    LET to == IF host \in st.masters /\ "CA" \in st.services[host]
              THEN host ELSE ca_hostname
    IN  Log([st EXCEPT !.renewal = to], <<"set_renewal_master", to>>)

\* ensure_last_services(conn, hostname, masters, options); exit 0: it returns
ensure_last_services(st, host, hostname, force, answer) ==
    LET this_services == IF hostname \in st.masters THEN st.services[hostname]
                         ELSE {}
        others == OrderOf(NodeOrder, st.masters \ {hostname})
        withCa == SelectSeq(others, LAMBDA m : "CA" \in st.services[m])
        ca_hostname == IF withCa = <<>> THEN None ELSE Head(withCa)
        other_dns == ~("DNS" \in this_services
                       /\ \A m \in st.masters \ {hostname} :
                             "DNS" \notin st.services[m])
    IN  IF "CA" \in this_services /\ withCa = <<>>
        THEN [st |-> st, exit |-> 1, asked |-> FALSE,
              msg |-> "would leave your installation without a CA"]
        ELSE IF ~other_dns /\ ~force /\ ~answer
        THEN [st |-> st, exit |-> 1, asked |-> TRUE, msg |-> "Deletion aborted"]
        ELSE IF "DNS" \in this_services /\ other_dns /\ ~force
                /\ dnssecMaster = hostname
        THEN [st |-> st, exit |-> 1, asked |-> FALSE,
              msg |-> "Replica is active DNSSEC key master"]
        ELSE [st |-> IF st.renewal = hostname
                     THEN set_renewal_master(st, host, ca_hostname) ELSE st,
              exit |-> 0, asked |-> ~other_dns /\ ~force, msg |-> None]

(***************************************************************************)
(* Topology Editor: del_master_direct.                                     *)
(***************************************************************************)
\* get_rid_by_host(realm, sourcehost, host, ...): the replica id of the RUV
\* value with netloc host:389 on sourcehost; NoRid if there is none
get_rid_by_host(sourcehost, host) ==
    LET servers == get_ruv(sourcehost, "domain")
        found == {e \in servers.servers : e[1] = <<host, LdapPort>>}
    IN  IF servers.status = "RuntimeError"
        THEN [exited |-> TRUE, rid |-> NoRid]
        ELSE IF found = {} THEN [exited |-> FALSE, rid |-> NoRid]
        ELSE [exited |-> FALSE, rid |-> (CHOOSE e \in found : TRUE)[2]]

\* thisrepl.cleanallruv(rid): the CLEANALLRUV task entry on thisrepl
cleanallruv(st, host, rid) ==
    Log([st EXCEPT !.tasks = @ \cup
                      {[host |-> host, tree |-> "domain", rid |-> rid]}],
        <<"cleanallruv", host, rid>>)

\* thisrepl.replica_cleanup(hostname, realm, force=True): the master entry of
\* hostname with its service entries goes
replica_cleanup(st, hostname) ==
    Log([st EXCEPT !.masters = @ \ {hostname},
                   !.services = [n \in Nodes |->
                                    IF n = hostname THEN {} ELSE @[n]]],
        <<"replica_cleanup", hostname>>)

\* cleanup_server_dns_entries(realm, hostname, suffix, options)
cleanup_server_dns_entries(st, hostname) ==
    Log([st EXCEPT !.dnsRecords = @ \ {hostname}],
        <<"remove_master_dns_records", hostname>>)

\* RemoveEachAgreement leaving the loop at the first del_link that does not
\* return True
RECURSIVE RemoveEachAgreement_StopAtFailure(_, _, _)
RemoveEachAgreement_StopAtFailure(st, replica_names, hostname) ==
    IF replica_names = <<>> THEN st
    ELSE LET r == del_link(Log(st, <<"del_link", Head(replica_names), hostname>>),
                           Head(replica_names), hostname, TRUE)
         IN  IF r.returned = "True"
             THEN RemoveEachAgreement_StopAtFailure(r.st, Tail(replica_names),
                                                    hostname)
             ELSE Log(r.st, <<"Unable to remove replication agreement",
                              Head(replica_names)>>)

\* step 4, "Remove each agreement": del_link(realm, r, hostname, ...,
\* force=True) for every r; a False and an exception are both passed over
RECURSIVE RemoveEachAgreement(_, _, _)
RemoveEachAgreement(st, replica_names, hostname) ==
    IF replica_names = <<>> THEN st
    ELSE LET r == del_link(Log(st, <<"del_link", Head(replica_names), hostname>>),
                           Head(replica_names), hostname, TRUE)
         IN  RemoveEachAgreement(
                 IF r.returned = "True" THEN r.st
                 ELSE Log(r.st, <<"Unable to remove replication agreement",
                                  Head(replica_names)>>),
                 Tail(replica_names), hostname)

Exited(st, code, msg, on, asked) ==
    [st |-> st, exit |-> code, msg |-> msg, on |-> on, asked |-> asked]

\* step 5, "Clean RUV for the deleted master": thisrepl.cleanallruv(rid) when
\* there is a rid; a KeyboardInterrupt during the wait for the task is
\* reported and passed over
CleanDeletedRuv(st, host, rid, interrupted) ==
    IF rid = NoRid THEN st
    ELSE IF interrupted
    THEN Log(cleanallruv(st, host, rid), <<"Wait for task interrupted">>)
    ELSE cleanallruv(st, host, rid)

\* RemoveMaster with an except clause that reports the KeyboardInterrupt and
\* raises it again: it leaves del_master_direct and main exits with 1
RemoveMaster_InterruptLeaves(st, host, hostname, replica_names, rid, asked, interrupted) ==
    LET s1 == RemoveEachAgreement(st, replica_names, hostname)
        s2 == CleanDeletedRuv(s1, host, rid, interrupted)
        s3 == replica_cleanup(s2, hostname)
        s4 == cleanup_server_dns_entries(s3, hostname)
    IN  IF interrupted /\ rid # NoRid
        THEN Exited(s2, 1, "KeyboardInterrupt", <<>>, asked)
        ELSE Exited(s4, 0, "deleted", <<>>, asked)

\* RemoveMaster issuing the CLEANALLRUV task before the agreements are removed
RemoveMaster_CleanFirst(st, host, hostname, replica_names, rid, asked, interrupted) ==
    LET s1 == CleanDeletedRuv(st, host, rid, interrupted)
        s2 == RemoveEachAgreement(s1, replica_names, hostname)
        s3 == replica_cleanup(s2, hostname)
        s4 == cleanup_server_dns_entries(s3, hostname)
    IN  Exited(s4, 0, "deleted", <<>>, asked)

\* steps 4 to 7 of del_master_direct
RemoveMaster(st, host, hostname, replica_names, rid, asked, interrupted) ==
    LET s1 == RemoveEachAgreement(st, replica_names, hostname)
        s2 == CleanDeletedRuv(s1, host, rid, interrupted)
        s3 == replica_cleanup(s2, hostname)
        s4 == cleanup_server_dns_entries(s3, hostname)
    IN  Exited(s4, 0, "deleted", <<>>, asked)

\* the orphan check and the service check, and what follows them
CheckedRemoval(st, host, hostname, force, ans, replica_names, asked, interrupted) ==
    LET scan == IF Cardinality(st.masters) > 2
                THEN check_last_link(st, replica_names, hostname, force,
                                     ans.later)
                ELSE [aborted |-> FALSE, orphaned |-> <<>>,
                      unvalidated |-> <<>>]
        asked2 == asked \/ (~force /\ scan.unvalidated # <<>>)
        svc == ensure_last_services(st, host, hostname, force, ans.later)
        rid == get_rid_by_host(host, hostname)
    IN  IF scan.aborted
        THEN Exited(st, 1, "Aborted", scan.unvalidated, asked2)
        ELSE IF scan.orphaned # <<>>
        THEN Exited(st, 1, "Deleting this server will orphan", scan.orphaned,
                    asked2)
        ELSE IF svc.exit # 0
        THEN Exited(svc.st, svc.exit, svc.msg, <<>>, asked2 \/ svc.asked)
        ELSE IF rid.exited
        THEN Exited(svc.st, 1, "RuntimeError", <<>>, asked2 \/ svc.asked)
        ELSE RemoveMaster(svc.st, host, hostname, replica_names, rid.rid,
                          asked2 \/ svc.asked, interrupted)

\* del_master_direct(realm, hostname, options), options.host being host
del_master_direct(st, host, hostname, force, cleanup, ans, interrupted) ==
    LET repltype == get_agreement_type(st, host, hostname)
        winsync == repltype # "IPA"
        delrepl == CanConnect(hostname)
        replica_names ==
            IF winsync THEN <<host>>
            ELSE IF ~delrepl THEN OrderOf(NodeOrder, st.masters \ {hostname})
            ELSE find_ipa_replication_agreements(st, hostname)
        asked == ~winsync /\ ~force
        rid == get_rid_by_host(host, hostname)
    IN  IF ~CanConnect(host)
        THEN Exited(st, 1, "Failed to connect to server", <<>>, FALSE)
        ELSE IF repltype = None /\ ~cleanup
        THEN Exited(st, 1, "has no replication agreement", <<>>, FALSE)
        ELSE IF repltype = None /\ ~ans.first
        THEN Exited(st, 1, "Cleanup aborted", <<>>, TRUE)
        ELSE IF repltype = None
        THEN Exited(replica_cleanup(st, hostname), 0, "cleaned", <<>>, TRUE)
        ELSE IF ~winsync /\ ~delrepl /\ ~force
        THEN Exited(st, 1, "Unable to delete replica", <<>>, FALSE)
        ELSE IF asked /\ ~ans.first
        THEN Exited(st, 1, "Deletion aborted", <<>>, TRUE)
        ELSE IF delrepl /\ ~winsync
        THEN CheckedRemoval(st, host, hostname, force, ans, replica_names,
                            asked, interrupted)
        ELSE IF ~winsync /\ rid.exited
        THEN Exited(Log(st, <<"Skipping calculation">>), 1,
                    "RuntimeError", <<>>, asked)
        ELSE RemoveMaster(Log(st, <<"Skipping calculation">>), host, hostname,
                          replica_names, IF winsync THEN NoRid ELSE rid.rid,
                          asked, interrupted)

(***************************************************************************)
(* Topology Editor: add_link.                                              *)
(***************************************************************************)
\* the masters registry as the directory of node shows it: a host that was
\* removed from the registry still carries its own entry in its own copy,
\* and a host that is no IPA server has no registry
MastersSeenBy(st, node) ==
    IF node \notin Nodes THEN {}
    ELSE IF node \in st.masters THEN st.masters
    ELSE st.masters \cup {node}

\* conn.get_entry(master1_dn), conn.get_entry(master2_dn) on node do not
\* raise errors.NotFound
HasMasterEntries(st, node, replica1, replica2) ==
    {replica1, replica2} \subseteq MastersSeenBy(st, node)

\* the agreement entry of a for b, named after b: an entry of that name
\* that a already has stays as it is
setup_agreement(st, a, b, type) ==
    IF \E t \in Types : <<a, b, t>> \in st.agr
    THEN st
    ELSE [st EXCEPT !.agr = @ \cup {<<a, b, type>>}]

\* repl1.setup_gssapi_replication(replica2, ...): the agreement of each of
\* the two masters for the other
setup_gssapi_replication(st, replica1, replica2) ==
    Log(setup_agreement(setup_agreement(st, replica1, replica2, "IPA"),
                        replica2, replica1, "IPA"),
        <<"setup_gssapi_replication", replica1, replica2>>)

\* repl1.setup_winsync_replication(replica2, ...): the one agreement of
\* replica1 for the AD server
setup_winsync_replication(st, replica1, replica2) ==
    Log(setup_agreement(st, replica1, replica2, "WINSYNC"),
        <<"setup_winsync_replication", replica1, replica2>>)

\* sys.exit(code) with its message, or return (code 0)
Left(st, code, msg) == [st |-> st, exit |-> code, msg |-> msg]

\* add_link without the look for an agreement replica1 already has
add_link_Unchecked(st, replica1, replica2, options) ==
    IF options.winsync /\ ~options.complete
    THEN Left(st, 1, "The arguments are required to create a winsync agreement")
    ELSE IF options.winsync /\ ~options.root
    THEN Left(st, 1, "winsync agreements need to be created as root")
    ELSE IF ~options.winsync /\ has_managed_topology
    THEN Left(st, 1, "Creation of IPA replication agreement is deprecated")
    ELSE IF ~CanConnect(replica1)
    THEN Left(st, 0, "Failed to connect")
    ELSE IF options.winsync /\ ~options.cacert_loads
    THEN Left(st, 0, "Could not load the required CA certificate file")
    ELSE IF options.winsync
    THEN Left(setup_winsync_replication(st, replica1, replica2), 0, "Connected")
    ELSE Left(setup_gssapi_replication(st, replica1, replica2), 0, "Connected")

\* PeerCheckedLink looking at the master entries on replica1 alone
PeerCheckedLink_LocalOnly(st, replica1, replica2) ==
    IF ~HasMasterEntries(st, replica1, replica1, replica2)
    THEN Left(st, 1, "Connection unsuccessful")
    ELSE IF ~CanConnect(replica2)
    THEN Left(st, 1, "Unexpected error")
    ELSE Left(setup_gssapi_replication(st, replica1, replica2), 0, "Connected")

\* the else branch of add_link: the check of the master entries on both
\* servers, then the IPA agreement
PeerCheckedLink(st, replica1, replica2) ==
    IF ~HasMasterEntries(st, replica1, replica1, replica2)
    THEN Left(st, 1, "Connection unsuccessful")
    ELSE IF ~CanConnect(replica2)
    THEN Left(st, 1, "Unexpected error")
    ELSE IF ~HasMasterEntries(st, replica2, replica1, replica2)
    THEN Left(st, 1, "Connection unsuccessful")
    ELSE Left(setup_gssapi_replication(st, replica1, replica2), 0, "Connected")

\* add_link(realm, replica1, replica2, dirman_passwd, options)
add_link(st, replica1, replica2, options) ==
    IF options.winsync /\ ~options.complete
    THEN Left(st, 1, "The arguments are required to create a winsync agreement")
    ELSE IF options.winsync /\ ~options.root
    THEN Left(st, 1, "winsync agreements need to be created as root")
    ELSE IF ~options.winsync /\ has_managed_topology
    THEN Left(st, 1, "Creation of IPA replication agreement is deprecated")
    ELSE IF ~CanConnect(replica1)
    THEN Left(st, 0, "Failed to connect")
    ELSE IF get_agreement_type(st, replica1, replica2) = "WINSYNC"
    THEN Left(st, 1, "winsync agreement already exists")
    ELSE IF get_agreement_type(st, replica1, replica2) = "IPA"
    THEN Left(st, 1, "A replication agreement already exists")
    ELSE IF options.winsync /\ ~options.cacert_loads
    THEN Left(st, 0, "Could not load the required CA certificate file")
    ELSE IF options.winsync
    THEN Left(setup_winsync_replication(st, replica1, replica2), 0, "Connected")
    ELSE PeerCheckedLink(st, replica1, replica2)

(***************************************************************************)
(* The commands that change ranges and topology.                           *)
(* One command is run per behaviour: last.op = None until it has run.     *)
(***************************************************************************)
\* what a command leaves in the directory
Commit(st) ==
    /\ agr' = st.agr
    /\ referrals' = st.referrals
    /\ cur' = st.cur
    /\ nxt' = st.nxt
    /\ readonly' = st.readonly
    /\ masters' = st.masters
    /\ services' = st.services
    /\ renewal' = st.renewal
    /\ dnsRecords' = st.dnsRecords
    /\ tasks' = st.tasks
    /\ sharedInfo' = st.sharedInfo
    /\ UNCHANGED <<online, replicaId, ruvSet, ruvState, info, dnssecMaster,
                   idranges, trustranges, managed, dnaAccess>>

\* ipa-replica-manage dnarange-set / dnanextrange-set <hostname> <range>
SetRange(hostname, dna_next, dna_max, next_range) ==
    /\ last.op = None
    /\ \E r \in {set_DNA_range(Cluster, hostname, dna_next, dna_max, next_range)} :
        /\ Commit(r.st)
        /\ last' = [op |-> IF next_range THEN "dnanextrange-set"
                           ELSE "dnarange-set",
                    host |-> hostname, arg |-> <<dna_next, dna_max>>,
                    force |-> FALSE, exit |-> r.exit, msg |-> r.msg,
                    on |-> r.on, asked |-> FALSE, log |-> r.st.log]

\* ipa-replica-manage disconnect <replica1> <replica2>: main calls del_link
\* without force and passes over what it returns
DisconnectStep(replica1, replica2) ==
    \E r \in {del_link(Cluster, replica1, replica2, FALSE)} :
        /\ Commit(r.st)
        /\ last' = [op |-> "disconnect", host |-> replica1, arg |-> replica2,
                    force |-> FALSE,
                    exit |-> IF r.returned \in {"True", "False"} THEN 0 ELSE 1,
                    msg |-> r.msg, on |-> r.on, asked |-> FALSE,
                    log |-> r.st.log, returned |-> r.returned]

Disconnect(replica1, replica2) ==
    /\ last.op = None
    /\ DisconnectStep(replica1, replica2)

\* ipa-replica-manage connect <replica1> <replica2> [--winsync ...]
ConnectStep(replica1, replica2, options) ==
    \E r \in {add_link(Cluster, replica1, replica2, options)} :
        /\ Commit(r.st)
        /\ last' = [op |-> "connect", host |-> replica1, arg |-> replica2,
                    force |-> FALSE, exit |-> r.exit, msg |-> r.msg,
                    on |-> None, asked |-> FALSE, log |-> r.st.log,
                    options |-> options]

\* ipa-replica-manage del <hostname> [--force] [--cleanup] on options.host
DelMaster(host, hostname, force, cleanup, ans, interrupted) ==
    /\ last.op = None
    /\ ~managed
    /\ \E r \in {del_master_direct(Cluster, host, hostname, force, cleanup, ans,
                                  interrupted)} :
        /\ Commit(r.st)
        /\ last' = [op |-> "del", host |-> host, arg |-> hostname,
                    force |-> force, exit |-> r.exit, msg |-> r.msg,
                    on |-> r.on, asked |-> r.asked, log |-> r.st.log,
                    cleanup |-> cleanup, answers |-> ans]

(***************************************************************************)
(* The topology specification: four masters, in every combination of a     *)
(* topology, a set of reachable masters, a distribution of the services    *)
(* and a distribution of ranges that do not overlap.                       *)
(***************************************************************************)
\* IPA agreements in both directions for every pair of E
Links(E) ==
    {<<e[1], e[2], "IPA">> : e \in E} \cup {<<e[2], e[1], "IPA">> : e \in E}

\* A-C, C-D, B-D: the topology of check_last_link's docstring
TopoH == Links({<<"A", "C">>, <<"C", "D">>, <<"B", "D">>})
\* A-B, B-C, C-D, D-A
TopoRing == Links({<<"A", "B">>, <<"B", "C">>, <<"C", "D">>, <<"D", "A">>})
\* the ring with B's agreement for A missing
TopoOneWay == TopoRing \ {<<"B", "A", "IPA">>}
\* the ring, and a winsync agreement of A with W
TopoWinsync == TopoRing \cup {<<"A", "W", "WINSYNC">>}

\* C-A, A-B, B-D: the line in which A has B and then C as neighbours
TopoFork == Links({<<"A", "B">>, <<"A", "C">>, <<"B", "D">>})

\* the shared info of a winsync peer: its entry under cn=replicas, two
\* entries below it and one below the first of them
SharedSubtree(host) ==
    {<<host>>, <<host, "cn1">>, <<host, "cn2">>, <<host, "cn1", "cn3">>}

Topologies == {TopoH, TopoRing, TopoOneWay, TopoWinsync, TopoFork}

\* who is reachable: everybody, all but D, all but B, A and B only
Reachables == {Nodes, Nodes \ {"D"}, Nodes \ {"B"}, {"A", "B"}}

\* the services of the masters, the CA renewal master, the DNSSEC key master
ServiceConfigs ==
    {[services |-> [n \in Nodes |-> IF n \in {"A", "D"} THEN {"CA", "DNS"}
                                    ELSE {}],
      renewal |-> "D", dnssec |-> None],
     [services |-> [n \in Nodes |-> IF n = "D" THEN {"CA", "DNS"} ELSE {}],
      renewal |-> "D", dnssec |-> None],
     [services |-> [n \in Nodes |-> IF n = "A" THEN {"CA"}
                                    ELSE IF n \in {"C", "D"} THEN {"DNS"}
                                    ELSE {}],
      renewal |-> "A", dnssec |-> "D"]}

\* whose DNA configuration the caller may read and write: everybody's, all
\* but B's, all but D's
AccessConfigs == {Nodes, Nodes \ {"B"}, Nodes \ {"D"}}

\* the ids 1..3 belong to the domain, the ids 4..5 to a trusted AD domain:
\* (ipabaseid, ipaidrangesize)
DomainRanges == {<<1, 3>>}
\* the ipaDomainIDRange entries found: the one range, none, or the two
\* ranges 1..2 and 3..4
DomainRangeSets == {DomainRanges, {}, {<<1, 1>>, <<3, 1>>}}
TrustRanges == {<<4, 2>>}

\* the ranges handed out at the start: each at most once
InitRanges == {<<1, 2>>, <<3, 4>>}
RangeSlots == {"Dcur", "Dnxt", "Anxt", "Bcur"}
RangeConfigs ==
    {rc \in [RangeSlots -> InitRanges \cup {NoRange}] :
        \A s1, s2 \in RangeSlots :
            (s1 # s2 /\ rc[s1] # NoRange) => rc[s1] # rc[s2]}

\* the replica ids of the domain suffix; B has not sent a change yet and is
\* in nobody's RUV
TopoRid == [A |-> 1, B |-> MaxRid + 1, C |-> 2, D |-> 3]

NoCommand == [op |-> None, host |-> None, arg |-> None, force |-> FALSE,
              exit |-> 0, msg |-> None, on |-> None, asked |-> FALSE,
              log |-> <<>>]

Init ==
    /\ masters = Nodes
    /\ online \in {[n \in Nodes |-> n \in up] : up \in Reachables}
    /\ agr \in Topologies
    /\ referrals = {<<a[1], a[2]>> : a \in agr}
    /\ sharedInfo = UNION {SharedSubtree(a[2]) :
                               a \in {b \in agr : b[3] = "WINSYNC"}}
    /\ \E sc \in ServiceConfigs :
          /\ services = sc.services
          /\ renewal = sc.renewal
          /\ dnssecMaster = sc.dnssec
    /\ dnsRecords = Nodes
    /\ \E rc \in RangeConfigs :
          /\ cur = [n \in Nodes |-> IF n = "D" THEN rc["Dcur"]
                                    ELSE IF n = "B" THEN rc["Bcur"] ELSE NoRange]
          /\ nxt = [n \in Nodes |-> IF n = "D" THEN rc["Dnxt"]
                                    ELSE IF n = "A" THEN rc["Anxt"] ELSE NoRange]
    /\ idranges \in DomainRangeSets
    /\ trustranges = TrustRanges
    /\ readonly = [n \in Nodes |-> FALSE]
    /\ managed \in BOOLEAN
    /\ dnaAccess \in {[n \in Nodes |-> n \in ok] : ok \in AccessConfigs}
    /\ managed => agr = TopoWinsync /\ cur["D"] = NoRange /\ nxt["A"] = NoRange
    /\ agr = TopoFork =>
          /\ \A n \in Nodes : online[n] <=> n # "B"
          /\ \A n \in Nodes : dnaAccess[n]
          /\ cur["D"] = NoRange /\ nxt["A"] = NoRange
    /\ idranges # DomainRanges =>
          /\ agr = TopoRing /\ ~managed
          /\ \A n \in Nodes : online[n] /\ dnaAccess[n]
    /\ replicaId = [n \in Nodes |-> [s \in Suffixes |->
                        IF s = "domain" THEN TopoRid[n] ELSE 0]]
    /\ ruvSet = [s \in Suffixes |->
                    IF s = "domain"
                    THEN {<<<<n, LdapPort>>, TopoRid[n]>> : n \in Nodes \ {"B"}}
                    ELSE {}]
    /\ ruvState = [n \in Nodes |-> [s \in Suffixes |->
                      IF s = "domain" /\ online[n] THEN "ok"
                      ELSE "RuntimeError"]]
    /\ info = [m \in masters |-> InfoInit(m)]
    /\ tasks = {}
    /\ last = NoCommand

\* the ranges an operator may ask for: every pair within 0..MaxId that
\* splits and converts, 0-0 and the ill-formed x-x and 0-x among them
Requests == {<<s, e>> \in (0..MaxId) \X (0..MaxId) : s <= e}

\* the prompts answered: yes to all, no to all, yes to the first and no after
Answers == {[first |-> TRUE, later |-> TRUE], [first |-> FALSE, later |-> FALSE],
            [first |-> TRUE, later |-> FALSE]}

Next ==
    \/ \E hostname \in Nodes, range \in Requests, next_range \in BOOLEAN :
          SetRange(hostname, range[1], range[2], next_range)
    \/ \E replica1 \in Nodes, replica2 \in Hosts : Disconnect(replica1, replica2)
    \/ \E host \in {"A", "C"}, hostname \in Hosts, force \in BOOLEAN,
          cleanup \in BOOLEAN, ans \in Answers, interrupted \in BOOLEAN :
          DelMaster(host, hostname, force, cleanup, ans, interrupted)

\* One command per behaviour, run in any of the initial clusters.
Spec == Init /\ [][Next]_vars

(***************************************************************************)
(* The specification of connect and disconnect: any number of them, one    *)
(* after the other; the masters hold ranges where the topology is managed. *)
(***************************************************************************)
\* the options of connect: [--winsync] with --binddn, --bindpw, --passsync
\* and --cacert all given or not, run as root or not, the certificate file
\* loading or not
IpaOptions ==
    [winsync |-> FALSE, complete |-> FALSE, root |-> FALSE,
     cacert_loads |-> TRUE]

WinsyncOptions ==
    {[winsync |-> TRUE, complete |-> c, root |-> r, cacert_loads |-> l] :
        c, r, l \in BOOLEAN}

ConnectOptions == {IpaOptions} \cup WinsyncOptions

\* A-B, B-C: D has no agreement
TopoLine == Links({<<"A", "B">>, <<"B", "C">>})

\* the line, D has an agreement for C that C does not have for D
TopoStale == TopoLine \cup {<<"D", "C", "IPA">>}

\* D is registered or was removed from the registry
Registries == {Nodes, Nodes \ {"D"}}

InitLinks ==
    /\ masters \in Registries
    /\ online \in {[n \in Nodes |-> n \in up] : up \in {Nodes, Nodes \ {"B"}}}
    /\ agr \in {TopoLine, TopoStale, TopoRing}
    /\ masters # Nodes => agr # TopoRing
    /\ managed \in BOOLEAN
    /\ managed => agr = TopoRing /\ \A n \in Nodes : online[n]
    /\ referrals = {<<a[1], a[2]>> : a \in agr}
    /\ sharedInfo = {}
    /\ services = [n \in Nodes |-> {}]
    /\ renewal = None
    /\ dnssecMaster = None
    /\ dnsRecords = Nodes
    /\ cur = [n \in Nodes |-> IF managed /\ n = "B" THEN <<1, 2>> ELSE NoRange]
    /\ nxt = [n \in Nodes |-> IF managed /\ n = "D" THEN <<3, 4>> ELSE NoRange]
    /\ idranges = DomainRanges
    /\ trustranges = TrustRanges
    /\ readonly = [n \in Nodes |-> FALSE]
    /\ dnaAccess = [n \in Nodes |-> TRUE]
    /\ replicaId = [n \in Nodes |-> [s \in Suffixes |->
                        IF s = "domain" THEN TopoRid[n] ELSE 0]]
    /\ ruvSet = [s \in Suffixes |-> {}]
    /\ ruvState = [n \in Nodes |-> [s \in Suffixes |-> "RuntimeError"]]
    /\ info = <<>>
    /\ tasks = {}
    /\ last = NoCommand

\* the AD server W and the master B are the hosts a winsync agreement is
\* asked for, on A
NextLinks ==
    \/ \E replica1 \in Nodes :
          \E replica2 \in Nodes \ {replica1} :
              ConnectStep(replica1, replica2, IpaOptions)
    \/ \E replica2 \in {"W", "B"}, options \in WinsyncOptions :
          ConnectStep("A", replica2, options)
    \/ \E replica1 \in Nodes, replica2 \in Hosts :
          DisconnectStep(replica1, replica2)

SpecLinks == InitLinks /\ [][NextLinks]_vars

(***************************************************************************)
(* Claims about the Dangling-RUV Detector, checked under SpecRuv.          *)
(***************************************************************************)
\* a run of clean-dangling-ruv that got as far as classifying
RanCleanDangling ==
    last.op = "clean-dangling-ruv" /\ last.msg # "Failed to get data"

\* the RUV entries of suffix s seen on the reachable masters, ports stripped
ObservedOn(s) ==
    UNION {IF get_ruv_both_suffixes(m).status = "ok"
           THEN {<<e[1][1], e[2]>> : e \in get_ruv_both_suffixes(m)[s]}
           ELSE {} : m \in {n \in masters : online[n]}}

\* the (hostname, replica id) pairs the current masters report of themselves
SelfReported(s) ==
    {<<m, replicaId[m][s]>> : m \in {n \in masters : replicaId[n][s] # 0}}

Unreachable == {m \in masters : ~online[m]}

\* what the run classified as dangling on suffix s, over all masters
DanglingSet(s) ==
    UNION {IF s = "domain" THEN info[m].clean_ruv ELSE info[m].clean_csruv :
              m \in masters}

\* what master m observed on suffix s in the run
SeenBy(m, s) == IF s = "domain" THEN info[m].ruvs ELSE info[m].csruvs

\* t purges the replica id of the (host, rid) entry e of suffix s
Purges(t, s, e) == t.tree = s /\ t.rid = e[2]

IssuedTasks == {last.issued[i] : i \in 1..Len(last.issued)}

\* C5: the dangling set of clean-dangling-ruv is (the union of the RUVs
\* observed on reachable nodes) minus (the self-reported pairs of current
\* nodes) minus (the entries whose origin node is unreachable), per suffix.
C5_DanglingSetFormula ==
    RanCleanDangling =>
        \A s \in Suffixes :
            DanglingSet(s) =
                (ObservedOn(s) \ SelfReported(s))
                    \ {e \in ObservedOn(s) : e[1] \in Unreachable}

\* C5 witness: a run with a dangling entry, an entry kept because a master
\* reports it of itself, and an entry kept because its origin is offline
C5_Witness ==
    /\ RanCleanDangling
    /\ DanglingSet("domain") # {}
    /\ ObservedOn("ca") \cap SelfReported("ca") # {}
    /\ \E e \in ObservedOn("domain") : e[1] \in Unreachable

\* C6: an observed entry whose origin is a current, reachable node with a
\* matching self-reported replica id is never marked dangling and never has
\* a cleanup task issued for it.
C6_MatchingEntryNeverCleaned ==
    RanCleanDangling =>
        \A s \in Suffixes : \A e \in ObservedOn(s) :
            (e[1] \in masters /\ online[e[1]] /\ replicaId[e[1]][s] = e[2]) =>
                /\ e \notin DanglingSet(s)
                /\ \A t \in IssuedTasks : ~Purges(t, s, e)

\* C7 as stated: an observed entry is dangling exactly when its origin, port
\* stripped, is not the hostname of a current node and is not unreachable.
C7_AsStated ==
    RanCleanDangling =>
        \A s \in Suffixes : \A e \in ObservedOn(s) :
            e \in DanglingSet(s) <=>
                (e[1] \notin masters /\ e[1] \notin Unreachable)

\* C7 amended: an entry (origin, rid) observed on a reachable node is
\* dangling exactly when (origin without port, rid) is not the self-reported
\* pair of a current reachable node and origin is not an unreachable master.
C7_DanglingByPair ==
    RanCleanDangling =>
        \A s \in Suffixes : \A m \in masters : \A e \in SeenBy(m, s) :
            (e \in (IF s = "domain" THEN info[m].clean_ruv
                    ELSE info[m].clean_csruv))
            <=> /\ ~(e[1] \in masters /\ online[e[1]]
                        /\ replicaId[e[1]][s] = e[2])
                /\ e[1] \notin Unreachable

\* C7 witness: a stale entry of a current, reachable master (its replica id
\* differs from the id the master reports) is classified dangling
C7_Witness ==
    /\ RanCleanDangling
    /\ \E e \in DanglingSet("domain") :
          e[1] \in masters /\ online[e[1]]
              /\ replicaId[e[1]]["domain"] \notin {0, e[2]}

\* C8: no cleanup task purges the replica id of a current master that was
\* unreachable during the run.
C8_OfflineMasterNeverPurged ==
    RanCleanDangling =>
        \A t \in IssuedTasks : \A m \in Unreachable :
            replicaId[m][t.tree] # t.rid

\* C9: within one run at most one cleanup task is issued per replica id.
C9_OneTaskPerRid ==
    last.op = "clean-dangling-ruv" =>
        \A i, j \in 1..Len(last.issued) :
            last.issued[i].rid = last.issued[j].rid => i = j

\* C9 witness: a replica id dangling on both masters, cleaned in the run
C9_Witness ==
    /\ RanCleanDangling
    /\ \E e \in info["A"].clean_ruv \cap info["B"].clean_ruv :
          \E t \in IssuedTasks : t.rid = e[2]

\* C10: with no dangling entry on any reachable node the run reports that
\* no dangling RUVs were found, exits 0, asks nothing and issues no task.
C10_NothingDangling ==
    (RanCleanDangling /\ \A s \in Suffixes : DanglingSet(s) = {}) =>
        /\ last.msg = "No dangling RUVs found"
        /\ last.exit = 0
        /\ ~last.asked
        /\ last.issued = <<>>

\* C10 witness: a run over RUVs that hold entries, none of them dangling
C10_Witness ==
    /\ RanCleanDangling
    /\ \A s \in Suffixes : DanglingSet(s) = {}
    /\ ObservedOn("domain") # {}
    /\ ~last.force

(***************************************************************************)
(* Claims about ranges and topology, checked under Spec.                   *)
(***************************************************************************)
\* the non-zero ranges the registered nodes hold: <<node, kind, range>>
HeldRanges ==
    {<<n, "current", cur[n]>> : n \in {m \in masters : cur[m] # NoRange}}
    \cup {<<n, "on-deck", nxt[n]>> : n \in {m \in masters : nxt[m] # NoRange}}

\* some identifier lies in both closed intervals
SharePoint(r, q) == \E k \in r[1]..r[2] : k \in q[1]..q[2]

\* a command has just run: the step from the unprimed to the primed state
Ran(ops) == last.op = None /\ last'.op \in ops

SetOps == {"dnarange-set", "dnanextrange-set"}

\* C1: the non-zero current and on-deck ranges held by the nodes are pairwise
\* non-overlapping in every state reached from non-overlapping ranges by
\* dnarange-set, dnanextrange-set, disconnect and del.
C1_RangesNeverOverlap ==
    \A h1, h2 \in HeldRanges : h1 # h2 => ~SharePoint(h1[3], h2[3])

\* a valid non-zero range was requested for the reachable node last'.host,
\* and N is another registered, reachable node that holds a current or
\* on-deck range sharing an identifier with it
RequestMeets(N) ==
    /\ Ran(SetOps)
    /\ last'.arg[1] > 0 /\ last'.arg[1] < last'.arg[2]
    /\ online[last'.host]
    /\ N \in masters \ {last'.host}
    /\ online[N]
    /\ \/ cur[N] # NoRange /\ SharePoint(cur[N], last'.arg)
       \/ nxt[N] # NoRange /\ SharePoint(nxt[N], last'.arg)

\* the command ended with the overlap error and wrote no range
OverlapError ==
    /\ last'.exit = 1
    /\ last'.msg \in {"New range overlaps the DNA range",
                      "New range overlaps the DNA next range"}
    /\ cur' = cur /\ nxt' = nxt

IpaPeers(n) == {h \in Hosts : <<n, h, "IPA">> \in agr}

\* the neighbours of d that del d would orphan
OrphansOf(d) == {b \in IpaPeers(d) : IpaPeers(b) = {d}}

\* C3: del without force of a reachable node d, run on a reachable host that
\* has an IPA agreement for d, by an operator who confirms, with more than
\* two masters and every neighbour of d reachable: if a neighbour of d has d
\* as its only IPA agreement, del ends with exit code 1 naming each such
\* neighbour, and agreements, referrals, ranges, renewal master, master and
\* service entries are as before.
C3_OrphanRefused ==
    [][(/\ Ran({"del"})
        /\ ~last'.force
        /\ last'.answers.first
        /\ last'.arg \in Nodes
        /\ online[last'.host] /\ online[last'.arg]
        /\ <<last'.host, last'.arg, "IPA">> \in agr
        /\ Cardinality(masters) > 2
        /\ \A b \in IpaPeers(last'.arg) : b \in Nodes /\ online[b]
        /\ OrphansOf(last'.arg) # {})
       => (/\ last'.exit = 1
           /\ last'.msg = "Deleting this server will orphan"
           /\ {last'.on[i] : i \in 1..Len(last'.on)} = OrphansOf(last'.arg)
           /\ UNCHANGED <<agr, referrals, cur, nxt, renewal, masters,
                          services, readonly, dnsRecords, tasks>>)]_vars

\* del D was refused in the topology A-C, C-D, B-D because of B
C3_Witness ==
    /\ last.op = "del"
    /\ ~last.force
    /\ last.arg = "D"
    /\ last.msg = "Deleting this server will orphan"
    /\ last.on = <<"B">>
    /\ agr = TopoH
    /\ masters = Nodes

\* C4: disconnect (del_link without force) of an IPA agreement of replica1
\* for replica2 does not succeed when replica1 or replica2 has at most one
\* IPA agreement, and then agreements, referrals, ranges and read-only
\* flags are as before.
C4_LastLinkRefused ==
    [][(/\ Ran({"disconnect"})
        /\ <<last'.host, last'.arg, "IPA">> \in agr
        /\ <<last'.host, last'.arg, "WINSYNC">> \notin agr
        /\ \/ Cardinality(IpaPeers(last'.host)) <= 1
           \/ Cardinality(IpaPeers(last'.arg)) <= 1)
       => (/\ last'.returned # "True"
           /\ UNCHANGED <<agr, referrals, cur, nxt, readonly>>)]_vars

\* disconnect was refused because of replica2's last link, replica1 having
\* more than one and replica2 holding a range
C4_Witness ==
    /\ last.op = "disconnect"
    /\ last.returned = "False"
    /\ last.msg = "Cannot remove the last replication link"
    /\ last.on = last.arg
    /\ Cardinality(IpaPeers(last.host)) > 1
    /\ Cardinality(IpaPeers(last.arg)) = 1
    /\ cur[last.arg] # NoRange

\* some registered master provides the CA
CaProvided == \E n \in masters : "CA" \in services[n]

\* C11: del never leaves the installation without a CA: if a registered
\* master provided the CA before del, a registered master provides it after,
\* with or without force, with the removed node reachable or not.
C11_CaSurvives ==
    [][(Ran({"del"}) /\ CaProvided) => CaProvided']_vars

\* del has deleted the registry entry of the node it was given
DelCompleted ==
    last.op = "del" /\ last.arg \in Nodes /\ last.arg \notin masters

\* C12: once del has deleted the registry entry of node D, no agreement has
\* D as its remote host and D holds no agreement, also when the agreements
\* were not symmetric before.
C12_NoAgreementLeft ==
    DelCompleted => \A a \in agr : a[1] # last.arg /\ a[2] # last.arg

\* the peers del takes for hostname: the host itself for a winsync agreement,
\* every other master when hostname cannot be reached, else the remote hosts
\* of the IPA agreements hostname holds
PeersOf(host, hostname) ==
    IF \E a \in agr : a[1] = host /\ a[2] = hostname /\ a[3] = "WINSYNC"
    THEN {host}
    ELSE IF hostname \notin Nodes \/ ~online[hostname]
    THEN masters \ {hostname}
    ELSE {a[2] : a \in {x \in agr : x[1] = hostname /\ x[3] = "IPA"}}

\* the positions of the events of the last command's log that satisfy Is
LogAt(Is(_)) == {i \in DOMAIN last.log : Is(last.log[i])}

IsLinkFailure(ev) == ev[1] = "Unable to remove replication agreement"

IsDelLink(ev) == ev[1] = "del_link"

IsCleanup(ev) == ev = <<"replica_cleanup", last.arg>>

IsDnsCleanup(ev) == ev = <<"remove_master_dns_records", last.arg>>

\* C13: when del fails to remove the link with one peer, del_link is still
\* attempted for every peer of the removed node, and the registry entries and
\* the DNS records are cleaned up after the failure.
C13_EveryPeerAttempted ==
    [][(Ran({"del"}) /\ LogAt(IsLinkFailure)' # {}) =>
          /\ \A r \in PeersOf(last'.host, last'.arg) :
                \E j \in DOMAIN last'.log :
                    last'.log[j] = <<"del_link", r, last'.arg>>
          /\ \A i \in LogAt(IsLinkFailure)' :
                /\ \E j \in LogAt(IsCleanup)' : j > i
                /\ \E j \in LogAt(IsDnsCleanup)' : j > i]_vars

\* del failed on one peer and went on to another peer and to the cleanup
C13_Witness ==
    /\ last.op = "del"
    /\ \E i \in LogAt(IsLinkFailure) :
          /\ \E j \in LogAt(IsDelLink) : j > i
          /\ \E j \in LogAt(IsCleanup) : j > i
          /\ \E j \in LogAt(IsDnsCleanup) : j > i

IsRenewal(ev) == ev[1] = "set_renewal_master"

IsCleanAllRuv(ev) == ev[1] = "cleanallruv"

\* a write of del_link: read-only mode, an agreement or a referral
IsLinkWrite(ev) ==
    ev[1] \in {"set_readonly", "delete_agreement", "delete_referral"}

\* the messages with which the orphan check and the service check refuse
CheckRefusals ==
    {"Aborted", "Deleting this server will orphan", "Deletion aborted",
     "would leave your installation without a CA",
     "Replica is active DNSSEC key master"}

\* C14: in every run of del the orphan check and the service check, with the
\* reassignment of the renewal master, come before the first write of
\* del_link and a refusal by them leaves agreements and masters alone; the
\* CLEANALLRUV task is issued for the replica id of the removed node after
\* del_link has been attempted for every peer; the registry entries and the
\* DNS records are removed after the CLEANALLRUV task and after the links.
C14_StepOrder ==
    [][Ran({"del"}) =>
          /\ \A i \in LogAt(IsRenewal)' : \A j \in LogAt(IsLinkWrite)' : i < j
          /\ last'.msg \in CheckRefusals =>
                agr' = agr /\ referrals' = referrals /\ masters' = masters
          /\ \A i \in LogAt(IsCleanAllRuv)' :
                /\ \A j \in LogAt(IsDelLink)' : j < i
                /\ \A r \in PeersOf(last'.host, last'.arg) :
                      \E j \in LogAt(IsDelLink)' :
                          last'.log[j] = <<"del_link", r, last'.arg>>
                /\ <<<<last'.arg, LdapPort>>, last'.log[i][3]>> \in ruvSet.domain
          /\ \A i \in LogAt(IsCleanup)' \cup LogAt(IsDnsCleanup)' :
                /\ \A j \in LogAt(IsCleanAllRuv)' : j < i
                /\ \A j \in LogAt(IsDelLink)' : j < i
          /\ \A i \in LogAt(IsDnsCleanup)' : \E j \in LogAt(IsCleanup)' : j < i]_vars

\* a del that reassigned the renewal master, removed links, issued the
\* CLEANALLRUV task and cleaned up
C14_Witness ==
    /\ last.op = "del"
    /\ LogAt(IsRenewal) # {}
    /\ Cardinality(LogAt(IsDelLink)) >= 2
    /\ LogAt(IsCleanAllRuv) # {}
    /\ LogAt(IsCleanup) # {} /\ LogAt(IsDnsCleanup) # {}

IsInterrupted(ev) == ev = <<"Wait for task interrupted">>

\* C15: when the wait for the CLEANALLRUV task of del is interrupted, the
\* task stays on the server and nothing aborts it, del reports that it goes
\* on in the background and ends with success, and the registry entries and
\* the DNS records of the removed node are still deleted after that.
C15_InterruptedWait ==
    (last.op = "del" /\ LogAt(IsInterrupted) # {}) =>
        /\ last.exit = 0
        /\ \A i \in LogAt(IsInterrupted) :
              /\ i > 1 /\ IsCleanAllRuv(last.log[i - 1])
              /\ [host |-> last.host, tree |-> "domain",
                  rid |-> last.log[i - 1][3]] \in tasks
              /\ \E j \in LogAt(IsCleanup) : j > i
              /\ \E j \in LogAt(IsDnsCleanup) : j > i
        /\ last.arg \notin masters
        /\ last.arg \notin dnsRecords

\* a del whose wait for the CLEANALLRUV task was interrupted
C15_Witness ==
    /\ last.op = "del"
    /\ LogAt(IsInterrupted) # {}
    /\ tasks # {}

\* C16: del with the force flag is not refused by the orphan check: no del
\* run with force ends with the refusal "Deleting this server will orphan".
C16_ForceOverridesOrphanCheck ==
    (last.op = "del" /\ last.force) =>
        ~(last.exit = 1 /\ last.msg = "Deleting this server will orphan")

\* the last command was a del_link, or a del with its del_link calls, whose
\* remote side is a reachable master
LinkRun ==
    /\ last.op \in {"disconnect", "del"}
    /\ last.arg \in Nodes
    /\ online[last.arg]

\* node is in read-only mode when event i of the log happens
ReadOnlyAt(i, node) ==
    \E k \in 1..(i - 1) :
        /\ last.log[k] = <<"set_readonly", node, TRUE>>
        /\ \A n \in (k + 1)..(i - 1) :
              last.log[n] # <<"set_readonly", node, FALSE>>

\* the position where the del_link call that event i belongs to begins
CallStart(i) ==
    Max(0, CHOOSE k \in {0} \cup {j \in 1..i : IsDelLink(last.log[j])} :
               \A j \in (k + 1)..i : ~IsDelLink(last.log[j]))

\* a read of a range of the remote, or what store_DNA_range does with it
IsSnapshot(ev) ==
    ev[1] \in {"get_DNA_range", "get_DNA_next_range", "save_DNA_next_range",
               "Unable to save DNA range"}

IsDeletion(ev) == ev[1] \in {"delete_agreement", "delete_referral"}

\* both ranges of the remote were read in the call of event i, before it
SnapshotBefore(i) ==
    \E j \in (CallStart(i) + 1)..(i - 1) :
        last.log[j] = <<"get_DNA_next_range", last.arg>>

\* the remote deleted its agreement in the call of event i, before it
RemoteDeletedBefore(i) ==
    \E j \in (CallStart(i) + 1)..(i - 1) :
        last.log[j][1] = "delete_agreement" /\ last.log[j][2] = last.arg

\* the remote side failed in the call of event i, before it
RemoteFailedBefore(i) ==
    \E j \in (CallStart(i) + 1)..(i - 1) :
        last.log[j] = <<"Unable to remove agreement on", last.arg>>

\* the ranges of the remote are read and handed on in read-only mode only
SnapshotInReadOnly ==
    \A i \in LogAt(IsSnapshot) : ReadOnlyAt(i, last.arg)

\* C17 as stated: in del_link of an IPA agreement with a reachable remote the
\* ranges of the remote are read and handed on only while it is read-only, and
\* every agreement and referral is deleted only after the ranges were read,
\* the local side after the remote side.
C17_AsStated ==
    LinkRun =>
        /\ SnapshotInReadOnly
        /\ \A i \in LogAt(IsDeletion) :
              /\ SnapshotBefore(i)
              /\ last.log[i][2] # last.arg => RemoteDeletedBefore(i)

\* C17: in del_link of an IPA agreement with a reachable remote the ranges of
\* the remote are read and handed on only while it is read-only; the remote
\* deletes its agreement and referral only after its ranges were read; the
\* local side deletes after the remote side did, or, in a del_link called
\* with force (by del), after the remote side failed.
C17_SnapshotWindow ==
    LinkRun =>
        /\ SnapshotInReadOnly
        /\ \A i \in LogAt(IsDeletion) :
              /\ last.log[i][2] = last.arg => SnapshotBefore(i)
              /\ last.log[i][2] # last.arg =>
                    \/ RemoteDeletedBefore(i) /\ SnapshotBefore(i)
                    \/ last.op = "del" /\ RemoteFailedBefore(i)

\* a disconnect that handed a range of the remote on and deleted both sides
C17_Witness ==
    /\ LinkRun
    /\ last.op = "disconnect"
    /\ \E i \in LogAt(IsSnapshot) : last.log[i][1] = "save_DNA_next_range"
    /\ \E i \in LogAt(IsDeletion) : last.log[i][2] = last.arg
    /\ \E i \in LogAt(IsDeletion) : last.log[i][2] = last.host

\* the place of a master in directory order
Pos(n) == CHOOSE i \in DOMAIN NodeOrder : NodeOrder[i] = n

\* the first master of a non-empty set in directory order
FirstNode(S) == CHOOSE n \in S : \A o \in S : Pos(n) <= Pos(o)

\* the reachable masters other than the excluded one
Scanned(excluded) == {n \in masters \ {excluded} : online[n]}

\* those of them without an on-deck range, the on-deck ranges being nx
FreeNodes(nx, excluded) == {n \in Scanned(excluded) : nx[n] = NoRange}

\* the on-deck ranges after redistribute(range, excluded), as stated
StoredAsStated(nx, range, excluded) ==
    IF range = NoRange \/ FreeNodes(nx, excluded) = {} THEN nx
    ELSE [nx EXCEPT ![FirstNode(FreeNodes(nx, excluded))] = range]

\* the masters where the scan ends: no on-deck range, or not readable
StopNodes(nx, excluded) ==
    {n \in Scanned(excluded) : ~dnaAccess[n] \/ nx[n] = NoRange}

\* the scan ends at a master whose on-deck range cannot be read
Raises(nx, range, excluded) ==
    /\ range # NoRange
    /\ StopNodes(nx, excluded) # {}
    /\ ~dnaAccess[FirstNode(StopNodes(nx, excluded))]

\* the on-deck ranges after redistribute(range, excluded)
Stored(nx, range, excluded) ==
    IF range = NoRange \/ StopNodes(nx, excluded) = {}
       \/ Raises(nx, range, excluded)
    THEN nx
    ELSE [nx EXCEPT ![FirstNode(StopNodes(nx, excluded))] = range]

\* the range is reported as not saved
NotSaved(nx, range, excluded) ==
    range # NoRange /\ StopNodes(nx, excluded) = {}

\* the last command read both ranges of its remote
SnapshotRead ==
    \E i \in DOMAIN last.log : last.log[i] = <<"get_DNA_next_range", last.arg>>

\* a disconnect that read the ranges of its remote
Redistributes == Ran({"disconnect"}) /\ SnapshotRead'

AfterCurrent(excluded) == Stored(nxt, cur[excluded], excluded)

RangesOf(n) == {cur[n], nxt[n]} \ {NoRange}

\* C19: when del removes a reachable master that has at least one peer, with
\* every master reachable and readable and at least as many other masters
\* without on-deck range as the removed master has ranges, each range of the
\* removed master is afterwards the on-deck range of exactly one surviving
\* master.
C19_EachRangeOnce ==
    [][(/\ Ran({"del"})
        /\ last'.msg = "deleted"
        /\ last'.arg \in Nodes
        /\ \A n \in Nodes : online[n] /\ dnaAccess[n]
        /\ IpaPeers(last'.arg) # {}
        /\ Cardinality(FreeNodes(nxt, last'.arg))
              >= Cardinality(RangesOf(last'.arg)))
       => \A r \in RangesOf(last'.arg) :
              Cardinality({m \in masters' : nxt'[m] = r}) = 1]_vars

\* the requested range lies within one configured domain range, the bounds
\* base and base + size included
InsideOneDomainRange(req) ==
    \E ent \in idranges : ent[1] <= req[1] /\ req[2] <= ent[1] + ent[2]

\* C20: dnarange-set and dnanextrange-set with a range other than 0-0 write
\* only if the range lies within one configured domain range
\* [base, base + size]; if no configured domain range contains it, the
\* command ends with an error and no range is written.
C20_FitsOneDomainRange ==
    [][(Ran(SetOps) /\ last'.arg # <<0, 0>> /\ ~InsideOneDomainRange(last'.arg))
       => (/\ last'.exit = 1
           /\ last'.msg # "saved"
           /\ UNCHANGED <<cur, nxt>>)]_vars

\* a range that lies in no single domain range, though every id of it lies
\* in one, was refused for that
C20_Witness ==
    /\ last.op \in SetOps
    /\ last.msg = "New range does not fit within existing IPA ranges"
    /\ last.exit = 1
    /\ ~InsideOneDomainRange(last.arg)
    /\ \A id \in last.arg[1]..last.arg[2] :
          \E ent \in idranges : ent[1] <= id /\ id <= ent[1] + ent[2]

\* the requested range shares an identifier with a configured trust range
\* [ipabaseid, ipabaseid + ipaidrangesize]
MeetsTrustRange(req) ==
    \E ent \in trustranges : SharePoint(req, <<ent[1], ent[1] + ent[2]>>)

\* C21: dnarange-set and dnanextrange-set never write a range other than 0-0
\* that shares an identifier with a configured trust range: the command ends
\* with an error and no range is written.
C21_TrustRangeRefused ==
    [][(Ran(SetOps) /\ last'.arg # <<0, 0>> /\ MeetsTrustRange(last'.arg))
       => (/\ last'.exit = 1
           /\ UNCHANGED <<cur, nxt>>)]_vars

\* the range the command was asked to set is the one stored on its host, in
\* the attribute the command sets
SameAsStored ==
    /\ Ran(SetOps)
    /\ last'.arg # <<0, 0>>
    /\ last'.arg = IF last'.op = "dnarange-set" THEN cur[last'.host]
                   ELSE nxt[last'.host]

\* C22: dnarange-set and dnanextrange-set asked for the range already stored
\* on the host, every master being reachable and readable and domain ranges
\* being configured, change nothing and end with "No changes to make".
C22_SameValueNoChange ==
    [][(/\ SameAsStored
        /\ idranges # {}
        /\ \A n \in Nodes : online[n] /\ dnaAccess[n])
       => (/\ last'.msg = "No changes to make"
           /\ UNCHANGED <<cur, nxt>>)]_vars

\* C23: the overlap check of dnarange-set and dnanextrange-set on a host
\* never rejects the request because of a range stored on that host itself.
C23_OwnRangesIgnored ==
    (last.op \in SetOps) =>
        ~(/\ last.msg \in {"New range overlaps the DNA range",
                           "New range overlaps the DNA next range"}
          /\ last.on = last.host)

(***************************************************************************)
(* Range strings: validate_range as set_DNA_range calls it on the string   *)
(* the operator typed.  A string is a sequence of characters.               *)
(***************************************************************************)
DigitChars == <<"0", "1", "2", "3", "4", "5", "6", "7", "8", "9">>

IsDigit(c) == \E i \in DOMAIN DigitChars : DigitChars[i] = c

DigitValue(c) == (CHOOSE i \in DOMAIN DigitChars : DigitChars[i] = c) - 1

\* str.split('-', 1): the string up to the first '-' and the string after
\* it, or the string alone when it has no '-'
RECURSIVE split(_, _)
split(before, rest) ==
    IF rest = <<>> THEN <<before>>
    ELSE IF Head(rest) = "-" THEN <<before, Tail(rest)>>
    ELSE split(Append(before, Head(rest)), Tail(rest))

\* int() passes over white space at both ends
RECURSIVE lstrip(_)
lstrip(s) ==
    IF s # <<>> /\ Head(s) = " " THEN lstrip(Tail(s)) ELSE s

RECURSIVE rstrip(_)
rstrip(s) ==
    IF s # <<>> /\ s[Len(s)] = " " THEN rstrip(SubSeq(s, 1, Len(s) - 1)) ELSE s

\* the digits of an integer literal: digits, with single underscores
\* between them
IsDigitString(s) ==
    /\ s # <<>>
    /\ IsDigit(s[1]) /\ IsDigit(s[Len(s)])
    /\ \A i \in DOMAIN s : IsDigit(s[i]) \/ s[i] = "_"
    /\ \A i \in 1..(Len(s) - 1) : ~(s[i] = "_" /\ s[i + 1] = "_")

\* the literal without its sign
Unsigned(s) ==
    IF s # <<>> /\ Head(s) \in {"+", "-"} THEN Tail(s) ELSE s

\* int(s) does not raise ValueError
IsInt(s) == IsDigitString(Unsigned(rstrip(lstrip(s))))

RECURSIVE DecimalValue(_, _)
DecimalValue(acc, s) ==
    IF s = <<>> THEN acc
    ELSE IF Head(s) = "_" THEN DecimalValue(acc, Tail(s))
    ELSE DecimalValue(10 * acc + DigitValue(Head(s)), Tail(s))

\* int(s), for a string that IsInt
ToInt(s) ==
    LET t == rstrip(lstrip(s))
    IN  IF Head(t) = "-" THEN 0 - DecimalValue(0, Tail(t))
        ELSE DecimalValue(0, Unsigned(t))

\* validate_range(range, allow_all_zero) on the string
validate_range_string(range, allow_all_zero) ==
    LET parts == split(<<>>, range)
    IN  IF Len(parts) # 2 THEN "Invalid range, must be the form x-y"
        ELSE IF ~IsInt(parts[1]) \/ ~IsInt(parts[2])
        THEN "The range must consist of integers"
        ELSE validate_range(ToInt(parts[1]), ToInt(parts[2]), allow_all_zero)

\* range_intersection as set_DNA_range calls it
Intersects(s1, s2, r1, r2) == range_intersection(s1, s2, r1, r2)

(***************************************************************************)
(* The specification of the two helper functions of set_DNA_range: one     *)
(* call per behaviour, of validate_range on a range string or of           *)
(* range_intersection on two intervals.                                    *)
(***************************************************************************)
\* what an operator may type on either side of the '-'
Components ==
    {<<>>,
     <<"0">>,
     <<"0", "0">>,
     <<"1">>,
     <<"2">>,
     <<"3">>,
     <<"+", "2">>,
     <<"-", "1">>,
     <<" ", "2">>,
     <<"2", " ">>,
     <<"1", "_", "0">>,
     <<"_", "1">>,
     <<"1", "_", "_", "0">>,
     <<"x">>,
     <<"2", "x">>,
     <<"2", "1", "4", "7", "4", "8", "3", "6", "4", "6">>,
     <<"2", "1", "4", "7", "4", "8", "3", "6", "4", "7">>}

\* the range strings: x-y for typed x and y, and strings without '-'
RangeStrings ==
    {a \o <<"-">> \o b : a, b \in Components} \cup Components

\* the interval ends range_intersection is called with
Ends == 0..MaxId

ValidateCall(range, allow_all_zero) ==
    [op |-> None, call |-> "validate_range", range |-> range,
     allow_all_zero |-> allow_all_zero]

IntersectCall(s1, s2, r1, r2) ==
    [op |-> None, call |-> "range_intersection", s |-> <<s1, s2>>,
     r |-> <<r1, r2>>]

InitPure ==
    /\ \/ \E range \in RangeStrings, allow_all_zero \in BOOLEAN :
             last = ValidateCall(range, allow_all_zero)
       \/ \E s1, s2, r1, r2 \in Ends : last = IntersectCall(s1, s2, r1, r2)
    /\ masters = {}
    /\ online = [n \in Nodes |-> FALSE]
    /\ services = [n \in Nodes |-> {}]
    /\ replicaId = [n \in Nodes |-> [s \in Suffixes |-> 0]]
    /\ ruvSet = [s \in Suffixes |-> {}]
    /\ ruvState = [n \in Nodes |-> [s \in Suffixes |-> "RuntimeError"]]
    /\ info = <<>>
    /\ tasks = {}
    /\ agr = {}
    /\ referrals = {}
    /\ cur = [n \in Nodes |-> NoRange]
    /\ nxt = [n \in Nodes |-> NoRange]
    /\ readonly = [n \in Nodes |-> FALSE]
    /\ renewal = None
    /\ dnssecMaster = None
    /\ dnsRecords = {}
    /\ idranges = {}
    /\ trustranges = {}
    /\ sharedInfo = {}
    /\ managed = FALSE
    /\ dnaAccess = [n \in Nodes |-> TRUE]

\* err = validate_range(range, allow_all_zero=next_range)
Validate ==
    /\ last.op = None
    /\ last.call = "validate_range"
    /\ last' = [op |-> "validate_range", call |-> last.call,
                range |-> last.range, allow_all_zero |-> last.allow_all_zero,
                err |-> validate_range_string(last.range, last.allow_all_zero)]
    /\ UNCHANGED <<clusterVars, topoVars, replicaId, ruvSet, ruvState, info,
                   tasks>>

\* range_intersection(s1, s2, r1, r2), and the call with the intervals
\* exchanged
Intersect ==
    /\ last.op = None
    /\ last.call = "range_intersection"
    /\ last' = [op |-> "range_intersection", call |-> last.call,
                s |-> last.s, r |-> last.r,
                result |-> Intersects(last.s[1], last.s[2], last.r[1], last.r[2]),
                exchanged |-> Intersects(last.r[1], last.r[2], last.s[1], last.s[2])]
    /\ UNCHANGED <<clusterVars, topoVars, replicaId, ruvSet, ruvState, info,
                   tasks>>

NextPure == Validate \/ Intersect

SpecPure == InitPure /\ [][NextPure]_vars

\* the range string has a '-', the first one at position k
FirstDashAt(range, k) ==
    /\ k \in DOMAIN range
    /\ range[k] = "-"
    /\ \A j \in 1..(k - 1) : range[j] # "-"

\* the components of a string of the form start-end: what stands before and
\* after its first '-'
StartOf(range, k) == SubSeq(range, 1, k - 1)

EndOf(range, k) == SubSeq(range, k + 1, Len(range))

\* start and end are integers that make a valid range
ValidEnds(start, end, allow_all_zero) ==
    \/ allow_all_zero /\ start = 0 /\ end = 0
    \/ /\ 1 <= start /\ start < MAXINT
       /\ 1 <= end /\ end < MAXINT
       /\ start < end

\* the string is of the form start-end with integers that make a valid range
WellFormed(range, allow_all_zero) ==
    \E k \in DOMAIN range :
        /\ FirstDashAt(range, k)
        /\ IsInt(StartOf(range, k)) /\ IsInt(EndOf(range, k))
        /\ ValidEnds(ToInt(StartOf(range, k)), ToInt(EndOf(range, k)),
                     allow_all_zero)

\* C24: validate_range returns an error for a range string when a component
\* (the text before, the text after its first '-') is not an integer, when
\* start >= end, 0-0 with allow_all_zero excepted, or when an endpoint lies
\* outside [1, MAXINT); it returns None for every other string start-end.
C24_ValidateRange ==
    (last.op = "validate_range") =>
        (last.err = None <=> WellFormed(last.range, last.allow_all_zero))

\* the largest valid endpoint was accepted, MAXINT itself being refused
C24_Witness ==
    /\ last.op = "validate_range"
    /\ last.err = None
    /\ \E k \in DOMAIN last.range :
          /\ FirstDashAt(last.range, k)
          /\ ToInt(EndOf(last.range, k)) = MAXINT - 1

\* both intervals of the last call have start <= end
ProperIntervals == last.s[1] <= last.s[2] /\ last.r[1] <= last.r[2]

\* some integer lies in both closed intervals of the last call
CommonPoint ==
    \E k \in Ends : /\ last.s[1] <= k /\ k <= last.s[2]
                    /\ last.r[1] <= k /\ k <= last.r[2]

\* C25: for intervals with start <= end, range_intersection gives the same
\* answer when the two intervals are exchanged, and it is true exactly when
\* some integer lies in both closed intervals.
C25_IntersectionSymmetric ==
    (last.op = "range_intersection" /\ ProperIntervals) =>
        /\ last.result = last.exchanged
        /\ last.result <=> CommonPoint

\* two intervals that share one endpoint and nothing else were found to
\* intersect
C25_Witness ==
    /\ last.op = "range_intersection"
    /\ last.s[1] < last.s[2]
    /\ last.s[2] = last.r[1]
    /\ last.r[1] < last.r[2]
    /\ last.result /\ last.exchanged

(***************************************************************************)
(* Claims about connect and disconnect, checked under SpecLinks.           *)
(***************************************************************************)
\* node holds an agreement, of either type, for remote
HoldsAgreement(node, remote) == \E t \in Types : <<node, remote, t>> \in agr

OnePerPair == \A a, b \in agr : (a[1] = b[1] /\ a[2] = b[2]) => a = b

\* a connect of two hosts, the first of which holds an agreement for the
\* second
ConnectOnHeld ==
    /\ last'.op = "connect"
    /\ HoldsAgreement(last'.host, last'.arg)

CarriesEntries(node) == HasMasterEntries(Cluster, node, last'.host, last'.arg)

PeerCheckPasses == CarriesEntries(last'.host) /\ CarriesEntries(last'.arg)

Creates == last'.op = "connect" /\ agr' # agr

\* a connect that gets as far as the look at the registries
ReachesPeerCheck ==
    /\ last'.op = "connect"
    /\ ~last'.options.winsync
    /\ ~managed
    /\ CanConnect(last'.host)
    /\ ~HoldsAgreement(last'.host, last'.arg)

\* the registry that the connect found wanting was one it could read
FoundMissing ==
    \/ ~CarriesEntries(last'.host)
    \/ CanConnect(last'.arg) /\ ~CarriesEntries(last'.arg)

\* C27 as stated: a connect creates an agreement, IPA or WINSYNC, only if
\* both hosts carry masters-registry entries for both hosts; with an entry
\* missing it creates none and does not report the hosts connected.
C27_AsStated ==
    [][/\ Creates => PeerCheckPasses
       /\ (last'.op = "connect" /\ ~PeerCheckPasses) =>
              (agr' = agr /\ last'.msg # "Connected")]_vars

\* C27: a connect creates an IPA agreement only if both hosts carry
\* masters-registry entries for both hosts; an IPA connect that finds an
\* entry missing ends with exit code 1 and "Connection unsuccessful" and
\* creates no agreement. (A winsync agreement is created with no look at
\* the registries.)
C27_IpaPeerChecked ==
    [][/\ (Creates /\ ~last'.options.winsync) => PeerCheckPasses
       /\ (last'.op = "connect" /\ ~last'.options.winsync /\ ~PeerCheckPasses) =>
              (agr' = agr /\ last'.msg # "Connected")
       /\ (ReachesPeerCheck /\ FoundMissing) =>
              (/\ agr' = agr
               /\ last'.exit = 1
               /\ last'.msg = "Connection unsuccessful")]_vars

\* a connect of the removed host to a registered one: its own registry has
\* both entries, the registered host's has not, and no agreement was made
C27_Witness ==
    /\ last.op = "connect"
    /\ ~last.options.winsync
    /\ last.msg = "Connection unsuccessful"
    /\ HasMasterEntries(Cluster, last.host, last.host, last.arg)
    /\ ~HasMasterEntries(Cluster, last.arg, last.host, last.arg)
    /\ ~HoldsAgreement(last.host, last.arg)

\* what connect and disconnect print when they refuse the request or fail
RefusalMessages ==
    {"Cannot remove the last replication link",
     "Failed to get list of agreements",
     "Unable to remove agreement",
     "Failed to connect",
     "Could not load the required CA certificate file",
     "Connection unsuccessful",
     "A replication agreement already exists",
     "winsync agreement already exists",
     "The arguments are required to create a winsync agreement",
     "winsync agreements need to be created as root",
     "Creation of IPA replication agreement is deprecated",
     "Removal of IPA replication agreement is deprecated",
     "Unexpected error", "type1"}

\* what they print when the request was carried out
SuccessMessages == {"Connected", "Deleted replication agreement"}

\* C28: a connect or disconnect that is refused or fails ends with exit
\* code 1, and one that ends with exit code 0 succeeded or had nothing to do
\* (the host has no agreement to remove).
C28_FailureExitsOne ==
    (last.op \in {"connect", "disconnect"}) =>
        /\ (last.msg \in RefusalMessages) => last.exit = 1
        /\ last.exit = 0 =>
               last.msg \in SuccessMessages \cup {"has no replication agreement"}

(***************************************************************************)
(* Claims about confirmation, checked under Spec.                          *)
(***************************************************************************)
\* the command deleted an agreement or a master's registry entry, or
\* created a CLEANALLRUV task
Destroys ==
    \/ agr \ agr' # {}
    \/ masters \ masters' # {}
    \/ tasks' \ tasks # {}

\* C29: a command deletes an agreement or a registry entry, or creates a
\* CLEANALLRUV task, only if the operator was asked and confirmed or the
\* force flag was given.
C29_ConfirmedOrForced == [][Destroys => (last'.asked \/ last'.force)]_vars

(***************************************************************************)
(* The specification of list-ruv: one run of the collector on a master     *)
(* whose two lookups end in any of the three ways.                         *)
(***************************************************************************)
LookupStates == {"ok", "NoRUVsFound", "RuntimeError"}

\* list_ruv(realm, host, dirman_passwd, verbose, nolookup): RuntimeError
\* ends with exit code 1, NoRUVsFound with 0, otherwise both halves are
\* printed
list_ruv(host) ==
    LET servers == get_ruv_both_suffixes(host)
    IN  [op |-> "list-ruv", host |-> host, force |-> FALSE,
         exit |-> IF servers.status = "RuntimeError" THEN 1 ELSE 0,
         msg |-> servers.status, asked |-> FALSE, issued |-> <<>>,
         keys |-> servers.keys, domain |-> servers.domain, ca |-> servers.ca]

ListRuv(host) ==
    /\ last.op = None
    /\ last' = list_ruv(host)
    /\ UNCHANGED <<clusterVars, replicaId, ruvSet, ruvState, info, tasks,
                   topoVars>>

\* as InitRuv, with every ending of the two lookups on every master that is
\* online
InitList ==
    /\ masters = RuvMasters
    /\ online \in {[n \in Nodes |-> n \in up] : up \in {{"A", "B"}, {"A"}, {"B"}}}
    /\ services \in {[n \in Nodes |-> IF n \in withCa THEN {"CA"} ELSE {}] :
                        withCa \in SUBSET RuvMasters}
    /\ ruvSet \in [Suffixes -> RuvSets("domain", MaxRuv) \cup RuvSets("ca", MaxRuv)]
    /\ ruvSet["domain"] \in RuvSets("domain", MaxRuv - 1)
    /\ ruvSet["ca"] \in RuvSets("ca", MaxRuv - 1)
    /\ replicaId = [n \in Nodes |-> [s \in Suffixes |->
                        IF s = "ca" /\ "CA" \notin services[n] THEN 0
                        ELSE InstalledRid[s][n]]]
    /\ ruvState \in [Nodes -> [Suffixes -> LookupStates]]
    /\ \A n \in Nodes :
          /\ ~online[n] =>
                \A s \in Suffixes : ruvState[n][s] = "RuntimeError"
          /\ n \notin RuvMasters =>
                \A s \in Suffixes : ruvState[n][s] = "RuntimeError"
          /\ "CA" \notin services[n] => ruvState[n]["ca"] = "RuntimeError"
    /\ info = [m \in masters |-> InfoInit(m)]
    /\ tasks = {}
    /\ last = NoLast
    /\ agr = {}
    /\ referrals = {}
    /\ cur = [n \in Nodes |-> NoRange]
    /\ nxt = [n \in Nodes |-> NoRange]
    /\ readonly = [n \in Nodes |-> FALSE]
    /\ renewal = None
    /\ dnssecMaster = None
    /\ dnsRecords = {}
    /\ idranges = {}
    /\ trustranges = {}
    /\ sharedInfo = {}
    /\ managed = FALSE
    /\ dnaAccess = [n \in Nodes |-> TRUE]

NextList == \E host \in RuvMasters : ListRuv(host)

SpecList == InitList /\ [][NextList]_vars

\* how the lookup of one suffix ended on the host of the run
LookupEnd(tree) == get_ruv(last.host, tree).status

\* the lookup could not reach the directory of a suffix the host serves
FailedToConnect(tree) ==
    /\ LookupEnd(tree) = "RuntimeError"
    /\ tree = "ca" => "CA" \in services[last.host]

\* C30: when the lookup of the CA suffix finds no RUV tombstone and that of
\* the domain suffix succeeds, the result has the domain half only and the
\* call succeeds; when a lookup fails to connect, the call fails with the
\* connection error and not with "no RUVs found".
C30_CollectBoth ==
    (last.op = "list-ruv") =>
        /\ (LookupEnd("ca") = "NoRUVsFound" /\ LookupEnd("domain") = "ok") =>
               (last.msg = "ok" /\ last.keys = {"domain"})
        /\ (FailedToConnect("ca") \/ FailedToConnect("domain")) =>
               last.msg = "RuntimeError"

(***************************************************************************)
(* RUV values: the loop of get_ruv over the nsds50ruv values of the        *)
(* tombstone entry.  A value is a sequence of characters.                  *)
(***************************************************************************)
ReplicaOpen == <<"{", "r", "e", "p", "l", "i", "c", "a", " ">>

GenerationOpen ==
    <<"{", "r", "e", "p", "l", "i", "c", "a", "g", "e", "n", "e", "r", "a",
      "t", "i", "o", "n">>

LdapScheme == <<"l", "d", "a", "p", ":", "/", "/">>

\* s.startswith(prefix), looking at s from position i on
StartsWithAt(s, i, prefix) ==
    /\ i + Len(prefix) - 1 <= Len(s)
    /\ SubSeq(s, i, i + Len(prefix) - 1) = prefix

\* \d+ at position i: the number of digits it takes
RECURSIVE DigitRun(_, _)
DigitRun(s, i) ==
    IF i <= Len(s) /\ IsDigit(s[i]) THEN 1 + DigitRun(s, i + 1) ELSE 0

\* .*:\d+\} from position i on: the positions of the last digit for which
\* the rest of the pattern matches
UrlEnds(s, i) ==
    {c + DigitRun(s, c + 1) : c \in
        {k \in i..Len(s) :
            /\ s[k] = ":"
            /\ DigitRun(s, k + 1) >= 1
            /\ k + DigitRun(s, k + 1) + 1 <= Len(s)
            /\ s[k + DigitRun(s, k + 1) + 1] = "}"}}

MaxOf(S) == CHOOSE x \in S : \A y \in S : y <= x

NoMatch == [matched |-> FALSE, rid |-> <<>>, url |-> <<>>]

\* the url group of the match, given where the replica id ends (the space
\* at position u): .* takes as much as it can
MatchUrl(ruv, u) ==
    IF UrlEnds(ruv, u + 1 + Len(LdapScheme)) = {} THEN NoMatch
    ELSE [matched |-> TRUE,
          rid |-> SubSeq(ruv, Len(ReplicaOpen) + 1, u - 1),
          url |-> SubSeq(ruv, u + 1,
                         MaxOf(UrlEnds(ruv, u + 1 + Len(LdapScheme))))]

\* re.match('\{replica (\d+) (ldap://.*:\d+)\}(\s+\w+\s+\w*){0,1}', ruv):
\* groups 1 and 2; what follows the '}' does not decide the match
ruv_match(ruv) ==
    IF ~StartsWithAt(ruv, 1, ReplicaOpen) THEN NoMatch
    ELSE IF DigitRun(ruv, Len(ReplicaOpen) + 1) = 0 THEN NoMatch
    ELSE IF ~StartsWithAt(ruv, Len(ReplicaOpen) + 1
                                  + DigitRun(ruv, Len(ReplicaOpen) + 1),
                          <<" ">> \o LdapScheme)
    THEN NoMatch
    ELSE MatchUrl(ruv, Len(ReplicaOpen) + 1
                           + DigitRun(ruv, Len(ReplicaOpen) + 1))

\* the text up to the first '/', '?' or '#'
RECURSIVE UpToPath(_)
UpToPath(s) ==
    IF s = <<>> \/ Head(s) \in {"/", "?", "#"} THEN <<>>
    ELSE <<Head(s)>> \o UpToPath(Tail(s))

\* urlparse(url).netloc of an ldap:// url
netloc(url) == UpToPath(SubSeq(url, Len(LdapScheme) + 1, Len(url)))

NoServers == [servers |-> <<>>, undecoded |-> <<>>]

\* the loop that ends at the first value it cannot decode
RECURSIVE parse_ruvs_StopAtMalformed(_, _)
parse_ruvs_StopAtMalformed(values, acc) ==
    IF values = <<>> THEN acc
    ELSE IF StartsWithAt(Head(values), 1, GenerationOpen)
    THEN parse_ruvs_StopAtMalformed(Tail(values), acc)
    ELSE IF ruv_match(Head(values)).matched
    THEN parse_ruvs_StopAtMalformed(Tail(values),
             [acc EXCEPT !.servers = Append(@,
                  <<netloc(ruv_match(Head(values)).url),
                    ruv_match(Head(values)).rid>>)])
    ELSE [acc EXCEPT !.undecoded = Append(@, Head(values))]

\* for ruv in e['nsds50ruv']: the (netloc, rid) pairs appended to servers,
\* and the values printed as "unable to decode"
RECURSIVE parse_ruvs(_, _)
parse_ruvs(values, acc) ==
    IF values = <<>> THEN acc
    ELSE IF StartsWithAt(Head(values), 1, GenerationOpen)
    THEN parse_ruvs(Tail(values), acc)
    ELSE IF ruv_match(Head(values)).matched
    THEN parse_ruvs(Tail(values),
             [acc EXCEPT !.servers = Append(@,
                  <<netloc(ruv_match(Head(values)).url),
                    ruv_match(Head(values)).rid>>)])
    ELSE parse_ruvs(Tail(values),
             [acc EXCEPT !.undecoded = Append(@, Head(values))])

(***************************************************************************)
(* The specification of the value loop of get_ruv: one call per behaviour, *)
(* on a tombstone entry with one or two nsds50ruv values.                  *)
(***************************************************************************)
\* what a directory server, or a damaged entry, may hold in the places of a
\* value {replica <rid> ldap://<host>:<port>} <state tokens>
RuvRecords ==
    [kind : {"replica"},
     open : {ReplicaOpen, <<"{", "r", "e", "p", "l", "i", "k", "a", " ">>},
     rid : {<<"5">>, <<"1", "2">>, <<"x">>},
     scheme : {LdapScheme, <<"h", "t", "t", "p", ":", "/", "/">>},
     host : {<<"f", "o", "o">>, <<"a", ".", "b">>, <<"f", ":", "1">>},
     port : {<<"3", "8", "9">>, <<"x">>, <<>>},
     close : {<<"}">>, <<>>},
     tail : {<<>>, <<" ", "5", "f", " ", "6", "0">>}]

\* the {replicageneration} value of the entry
GenerationRecord ==
    [kind |-> "generation", open |-> GenerationOpen, rid |-> <<>>,
     scheme |-> <<>>, host |-> <<>>, port |-> <<>>, close |-> <<"}">>,
     tail |-> <<" ", "5", "f">>]

\* a value as the directory returns it
RuvText(r) ==
    IF r.kind = "generation" THEN r.open \o r.close \o r.tail
    ELSE r.open \o r.rid \o <<" ">> \o r.scheme \o r.host \o <<":">>
         \o r.port \o r.close \o r.tail

\* the values met next to any other value: a well-formed one, the
\* generation and a value without its closing brace
Companions ==
    {[kind |-> "replica", open |-> ReplicaOpen, rid |-> <<"7">>,
      scheme |-> LdapScheme, host |-> <<"b", "a", "r">>,
      port |-> <<"3", "8", "9">>, close |-> <<"}">>, tail |-> <<>>],
     GenerationRecord,
     [kind |-> "replica", open |-> ReplicaOpen, rid |-> <<"8">>,
      scheme |-> LdapScheme, host |-> <<"b", "a", "z">>,
      port |-> <<"3", "8", "9">>, close |-> <<>>, tail |-> <<>>]}

RuvAttributes ==
    {<<x>> : x \in RuvRecords \cup {GenerationRecord}}
    \cup {<<x, y>> : x \in RuvRecords \cup {GenerationRecord}, y \in Companions}
    \cup {<<y, x>> : x \in RuvRecords \cup {GenerationRecord}, y \in Companions}

InitParse ==
    /\ \E attrs \in RuvAttributes :
          last = [op |-> None, call |-> "get_ruv", attrs |-> attrs,
                  values |-> [i \in DOMAIN attrs |-> RuvText(attrs[i])]]
    /\ masters = {}
    /\ online = [n \in Nodes |-> FALSE]
    /\ services = [n \in Nodes |-> {}]
    /\ replicaId = [n \in Nodes |-> [s \in Suffixes |-> 0]]
    /\ ruvSet = [s \in Suffixes |-> {}]
    /\ ruvState = [n \in Nodes |-> [s \in Suffixes |-> "RuntimeError"]]
    /\ info = <<>>
    /\ tasks = {}
    /\ agr = {}
    /\ referrals = {}
    /\ cur = [n \in Nodes |-> NoRange]
    /\ nxt = [n \in Nodes |-> NoRange]
    /\ readonly = [n \in Nodes |-> FALSE]
    /\ renewal = None
    /\ dnssecMaster = None
    /\ dnsRecords = {}
    /\ idranges = {}
    /\ trustranges = {}
    /\ sharedInfo = {}
    /\ managed = FALSE
    /\ dnaAccess = [n \in Nodes |-> TRUE]

\* servers = [] ... return servers
ParseRuv ==
    /\ last.op = None
    /\ \E r \in {parse_ruvs(last.values, NoServers)} :
          last' = [op |-> "get_ruv", call |-> last.call, attrs |-> last.attrs,
                   values |-> last.values, servers |-> r.servers,
                   undecoded |-> r.undecoded]
    /\ UNCHANGED <<clusterVars, topoVars, replicaId, ruvSet, ruvState, info,
                   tasks>>

NextParse == ParseRuv

SpecParse == InitParse /\ [][NextParse]_vars

AllDigits(s) == s # <<>> /\ \A i \in DOMAIN s : IsDigit(s[i])

\* the value is of the form {replica <rid> ldap://<host>:<port>}, with or
\* without state tokens after it
OfReplicaForm(r) ==
    /\ r.kind = "replica"
    /\ r.open = ReplicaOpen
    /\ AllDigits(r.rid)
    /\ r.scheme = LdapScheme
    /\ AllDigits(r.port)
    /\ r.close = <<"}">>

\* the pairs (<host>:<port>, <rid>) of the values of that form, in the order
\* of the values
RECURSIVE PairsOf(_)
PairsOf(attrs) ==
    IF attrs = <<>> THEN <<>>
    ELSE IF OfReplicaForm(Head(attrs))
    THEN <<<<Head(attrs).host \o <<":">> \o Head(attrs).port, Head(attrs).rid>>>>
         \o PairsOf(Tail(attrs))
    ELSE PairsOf(Tail(attrs))

\* the values that are neither of that form nor the generation
RECURSIVE MalformedOf(_)
MalformedOf(attrs) ==
    IF attrs = <<>> THEN <<>>
    ELSE IF ~OfReplicaForm(Head(attrs)) /\ Head(attrs).kind = "replica"
    THEN <<RuvText(Head(attrs))>> \o MalformedOf(Tail(attrs))
    ELSE MalformedOf(Tail(attrs))

\* C31: get_ruv returns, in the order of the values, the pair
\* (<host>:<port>, <rid>) of every value {replica <rid> ldap://<host>:<port>}
\* (state tokens may follow), nothing for the {replicageneration value, and
\* nothing for a malformed value, which is only reported as undecodable: the
\* other values of the entry are all returned.
C31_RuvValuesParsed ==
    (last.op = "get_ruv") =>
        /\ last.servers = PairsOf(last.attrs)
        /\ last.undecoded = MalformedOf(last.attrs)

\* a malformed value came first and the well-formed value after it was
\* returned
C31_Witness ==
    /\ last.op = "get_ruv"
    /\ Len(last.attrs) > 1
    /\ ~OfReplicaForm(last.attrs[1]) /\ last.attrs[1].kind = "replica"
    /\ OfReplicaForm(last.attrs[2])
    /\ Len(last.servers) = 1
    /\ last.servers[1][2] = last.attrs[2].rid

(***************************************************************************)
(* Claims about the checks and the frame of del and disconnect, checked    *)
(* under Spec.                                                             *)
(***************************************************************************)
\* del gets as far as the orphan check
OrphanCheckRuns ==
    /\ Ran({"del"})
    /\ last'.force \/ last'.answers.first
    /\ last'.arg \in Nodes
    /\ online[last'.host] /\ online[last'.arg]
    /\ <<last'.host, last'.arg, "IPA">> \in agr
    /\ Cardinality(masters) > 2

\* the neighbours of d that the check cannot connect to
Unreached(d) == {b \in IpaPeers(d) : ~CanConnect(b)}

\* the neighbours of d that the check connects to and finds to have d as
\* their only IPA agreement
ReachedOrphans(d) == {b \in IpaPeers(d) : CanConnect(b) /\ IpaPeers(b) = {d}}

\* C32: when the orphan check of del cannot reach a neighbour, it passes over
\* it: without force the operator is asked, and when they decline del ends
\* with "Aborted" and exit code 1 and nothing is changed; otherwise the
\* other neighbours are checked all the same, and del is refused naming
\* every reachable neighbour it would orphan.
C32_UnreachableNeighbourSkipped ==
    [][(OrphanCheckRuns /\ Unreached(last'.arg) # {}) =>
          /\ ~last'.force => last'.asked
          /\ (~last'.force /\ ~last'.answers.later) =>
                 (/\ last'.exit = 1
                  /\ last'.msg = "Aborted"
                  /\ UNCHANGED <<agr, referrals, cur, nxt, renewal, masters,
                                 services, readonly, dnsRecords, tasks,
                                 sharedInfo, dnssecMaster>>)
          /\ ((last'.force \/ last'.answers.later)
              /\ ReachedOrphans(last'.arg) # {}) =>
                 (/\ last'.exit = 1
                  /\ last'.msg = "Deleting this server will orphan"
                  /\ {last'.on[i] : i \in 1..Len(last'.on)}
                         = ReachedOrphans(last'.arg))]_vars

\* del A with B unreachable and C, checked after B, having A as its only
\* neighbour: the operator went on after the warning and del was refused
\* because of C
C32_Witness ==
    /\ last.op = "del"
    /\ ~last.force
    /\ last.arg = "A"
    /\ agr = TopoFork
    /\ ~online["B"]
    /\ last.answers.later
    /\ last.asked
    /\ last.msg = "Deleting this server will orphan"
    /\ last.on = <<"C">>

IsEntryDeletion(ev) == ev[1] = "delete_entry"

\* every entry of the peer's shared info was deleted after the entries below
\* it
ChildrenBeforeParents ==
    \A i, j \in LogAt(IsEntryDeletion) :
        IsBelow(last.log[j][2], last.log[i][2]) => j < i

\* C33: disconnect of a WINSYNC agreement deletes the agreement and the
\* referral on the local node and every shared-info entry of the peer, each
\* entry after the entries below it, and leaves every current and on-deck
\* range, every read-only flag and every other agreement and referral as
\* they were.
C33_WinsyncLinkRemoved ==
    [][(/\ Ran({"disconnect"})
        /\ CanConnect(last'.host)
        /\ <<last'.host, last'.arg, "WINSYNC">> \in agr)
       => (/\ last'.returned = "True"
           /\ agr' = agr \ {<<last'.host, last'.arg, "WINSYNC">>}
           /\ referrals' = referrals \ {<<last'.host, last'.arg>>}
           /\ sharedInfo' = {e \in sharedInfo : e[1] # last'.arg}
           /\ ChildrenBeforeParents'
           /\ UNCHANGED <<cur, nxt, readonly>>)]_vars

\* the winsync agreement of A with W was removed, and with it the four
\* shared-info entries of W
C33_Witness ==
    /\ last.op = "disconnect"
    /\ last.host = "A" /\ last.arg = "W"
    /\ last.returned = "True"
    /\ \A a \in agr : a[3] # "WINSYNC"
    /\ sharedInfo = {}
    /\ Cardinality(LogAt(IsEntryDeletion)) = Cardinality(SharedSubtree("W"))
    /\ cur["B"] # NoRange

(***************************************************************************)
(* Claims about the sessions and the tasks of clean-dangling-ruv, checked  *)
(* under SpecRuv.                                                          *)
(***************************************************************************)
\* session i of the run is unbound at event j, before a session to another
\* node is opened
ReleasedAt(i, j) ==
    /\ j > i
    /\ last.sessions[j] = <<"unbind", last.sessions[i][2], last.sessions[i][3]>>
    /\ \A k \in (i + 1)..(j - 1) :
          last.sessions[k][1] = "open" =>
              last.sessions[k][2] = last.sessions[i][2]

\* C34: every directory session that clean-dangling-ruv opens to a node is
\* unbound before a session to the next node is opened and before the
\* command ends, however it ends.
C34_SessionsReleased ==
    (last.op = "clean-dangling-ruv") =>
        \A i \in DOMAIN last.sessions :
            last.sessions[i][1] = "open" =>
                \E j \in DOMAIN last.sessions : ReleasedAt(i, j)

\* del of the CA renewal master gets as far as the orphan check and the
\* service check
RenewalMasterChecked ==
    /\ Ran({"del"})
    /\ renewal = last'.arg
    /\ last'.force \/ last'.answers.first
    /\ last'.arg \in Nodes
    /\ online[last'.host] /\ online[last'.arg]
    /\ <<last'.host, last'.arg, "IPA">> \in agr

\* C35: in a del of the node that is the CA renewal master, when the service
\* check runs, no agreement is deleted before the role has been given away,
\* and the node that was given the role is another node, is registered and
\* provides the CA, before the command and after it.
C35_RenewalMasterReassigned ==
    [][RenewalMasterChecked =>
          /\ LogAt(IsLinkWrite)' # {} => LogAt(IsRenewal)' # {}
          /\ \A i \in LogAt(IsRenewal)' : \A j \in LogAt(IsLinkWrite)' : i < j
          /\ LogAt(IsRenewal)' # {} =>
                 (/\ renewal' # last'.arg
                  /\ renewal' \in masters /\ renewal' \in masters'
                  /\ "CA" \in services[renewal']
                  /\ "CA" \in services'[renewal'])]_vars

\* del D, the renewal master, run on C, which has no CA: the role went to A
\* and D was removed
C35_Witness ==
    /\ last.op = "del"
    /\ last.arg = "D" /\ last.host = "C"
    /\ "D" \notin masters
    /\ renewal = "A"
    /\ "CA" \in services["A"]
    /\ LogAt(IsRenewal) # {}
    /\ LogAt(IsLinkWrite) # {}

\* C36: when disconnect or del has ended, on whatever path its del_link
\* calls ended, no node is in read-only mode.
C36_ReadOnlyReleased ==
    (last.op \in {"disconnect", "del"}) => \A n \in Nodes : ~readonly[n]

IsRemoteFailure(ev) == ev[1] = "Unable to remove agreement on"

\* a disconnect of an IPA agreement that gets past the checks on the local
\* node
RemoteSideDue ==
    /\ Ran({"disconnect"})
    /\ ~managed
    /\ CanConnect(last'.host)
    /\ <<last'.host, last'.arg, "IPA">> \in agr
    /\ Cardinality(IpaPeers(last'.host)) > 1

\* C37: in a disconnect (del_link without force) of an IPA agreement, when
\* the remote node cannot be connected to or a step of the remote side
\* raises, del_link returns False and the agreement and the referral of the
\* local node for the remote are still there.
C37_RemoteFailureKeepsLocal ==
    [][(RemoteSideDue
        /\ (~CanConnect(last'.arg) \/ LogAt(IsRemoteFailure)' # {}))
       => (/\ last'.returned = "False"
           /\ <<last'.host, last'.arg, "IPA">> \in agr'
           /\ <<last'.host, last'.arg>> \in referrals'
           /\ LogAt(IsDeletion)' = {})]_vars

\* a step on the remote side failed after the remote had been switched to
\* read-only mode, and the local agreement was kept
C37_Witness ==
    /\ last.op = "disconnect"
    /\ last.returned = "False"
    /\ last.msg = "Unable to remove agreement"
    /\ LogAt(IsRemoteFailure) # {}
    /\ <<last.host, last.arg, "IPA">> \in agr
    /\ <<last.host, last.arg>> \in referrals

\* C38: a run of clean-dangling-ruv that was confirmed or forced and in
\* which no step failed has issued, for every entry classified as dangling,
\* a cleanup task for the replica id of the entry on the suffix of the
\* entry, also when a domain entry and a CA entry carry the same replica id.
C38_EveryDanglingCleaned ==
    (RanCleanDangling /\ last.exit = 0 /\ last.msg = "Cleanup task created")
    => \A m \in masters :
          /\ \A e \in info[m].clean_ruv :
                \E t \in IssuedTasks : t.rid = e[2] /\ t.tree = "domain"
          /\ \A e \in info[m].clean_csruv :
                \E t \in IssuedTasks : t.rid = e[2] /\ t.tree = "ca"

(***************************************************************************)
(* Claims about connect and disconnect in a managed topology, checked      *)
(* under SpecLinks.                                                        *)
(***************************************************************************)
IpaAgreements(a) == {x \in a : x[3] = "IPA"}

\* the command of the step is a connect without --winsync, or a disconnect
\* of anything but a winsync agreement
OnIpaAgreement ==
    \/ last'.op = "connect" /\ ~last'.options.winsync
    \/ last'.op = "disconnect"
          /\ <<last'.host, last'.arg, "WINSYNC">> \notin agr

\* C39: in a managed topology no connect or disconnect adds or removes an
\* IPA agreement or changes a range; a connect without --winsync and a
\* disconnect of anything but a winsync agreement end with exit code 1 and
\* leave agreements, referrals, ranges and read-only modes as they were.
C39_ManagedTopologyKept ==
    [][managed =>
          /\ IpaAgreements(agr') = IpaAgreements(agr)
          /\ cur' = cur /\ nxt' = nxt
          /\ OnIpaAgreement =>
                /\ last'.exit = 1
                /\ agr' = agr /\ referrals' = referrals
                /\ readonly' = readonly]_vars

\* in a managed topology a winsync agreement was created, and the disconnect
\* of two masters, one of them holding a range, was refused after it
C39_Witness ==
    /\ managed
    /\ <<"A", "W", "WINSYNC">> \in agr
    /\ last.op = "disconnect"
    /\ last.exit = 1
    /\ last.msg = "Removal of IPA replication agreement is deprecated"
    /\ <<last.host, last.arg, "IPA">> \in agr
    /\ cur[last.arg] # NoRange

====
